---- MODULE Spec2Model ----
(***************************************************************************)
(* Model of the question-answering pipeline of LLMchatbot:                 *)
(*   backend/rag/retrieval_pipeline.py   RAGPipeline                       *)
(*   backend/knowledge_graph/neo4j_client.py   Neo4jClient                 *)
(*   backend/models/llm_handler.py   LLMHandler                            *)
(* Python strings are modelled as sequences of one-character strings, so   *)
(* that split, strip, lower and the substring tests are computed the way   *)
(* the code computes them.                                                 *)
(***************************************************************************)
EXTENDS Integers, Sequences, FiniteSets, TLC

(***************************************************************************)
(* Python str operations                                                   *)
(***************************************************************************)
Range(s) == {s[i] : i \in DOMAIN s}

UpperLetters == <<"A","B","C","D","E","F","G","H","I","J","K","L","M",
                  "N","O","P","Q","R","S","T","U","V","W","X","Y","Z">>

LowerLetters == <<"a","b","c","d","e","f","g","h","i","j","k","l","m",
                  "n","o","p","q","r","s","t","u","v","w","x","y","z">>

Digits == {"0","1","2","3","4","5","6","7","8","9"}

ToLower ==
    [c \in Range(UpperLetters) |->
        LowerLetters[CHOOSE i \in DOMAIN UpperLetters : UpperLetters[i] = c]]

ToUpper ==
    [c \in Range(LowerLetters) |->
        UpperLetters[CHOOSE i \in DOMAIN LowerLetters : LowerLetters[i] = c]]

\* str.lower() on one character
LowerChar(c) == IF c \in DOMAIN ToLower THEN ToLower[c] ELSE c

\* str.upper() on one character
UpperChar(c) == IF c \in DOMAIN ToUpper THEN ToUpper[c] ELSE c

Lower(s) == [i \in DOMAIN s |-> LowerChar(s[i])]

Upper(s) == [i \in DOMAIN s |-> UpperChar(s[i])]

\* str.isalnum(): non-empty and every character a letter or a digit
IsAlnum(s) ==
    /\ Len(s) > 0
    /\ \A i \in DOMAIN s :
          s[i] \in Range(UpperLetters) \cup Range(LowerLetters) \cup Digits

\* s[a:b] with 1-based inclusive bounds, empty when a > b
Slice(s, a, b) == IF a > b THEN <<>> ELSE SubSeq(s, a, b)

\* p occurs in s at position i
OccursAt(p, s, i) ==
    /\ i >= 1
    /\ i + Len(p) - 1 <= Len(s)
    /\ \A k \in DOMAIN p : s[i + k - 1] = p[k]

\* Python "p in s"
Contains(s, p) == \E i \in 1..(Len(s) + 1) : OccursAt(p, s, i)

\* str.endswith
EndsWith(s, p) == OccursAt(p, s, Len(s) - Len(p) + 1)

\* str.startswith
StartsWith(s, p) == OccursAt(p, s, 1)

\* str.count(c) for a single character c
CountChar(s, c) == Cardinality({i \in DOMAIN s : s[i] = c})

Whitespace == {" ", "\n", "\t"}

\* str.lstrip(chars) / str.rstrip(chars) / str.strip(chars)
RECURSIVE LStrip(_, _)
LStrip(s, chars) ==
    IF Len(s) > 0 /\ s[1] \in chars THEN LStrip(Tail(s), chars) ELSE s

RECURSIVE RStrip(_, _)
RStrip(s, chars) ==
    IF Len(s) > 0 /\ s[Len(s)] \in chars
    THEN RStrip(SubSeq(s, 1, Len(s) - 1), chars)
    ELSE s

Strip(s, chars) == RStrip(LStrip(s, chars), chars)

\* str.split() with no argument: the maximal runs of non-whitespace
RECURSIVE SplitWS(_)
SplitWS(s) ==
    LET t == LStrip(s, Whitespace) IN
    IF t = <<>> THEN <<>>
    ELSE LET stops == {i \in DOMAIN t : t[i] \in Whitespace}
             n == IF stops = {} THEN Len(t) + 1
                  ELSE CHOOSE i \in stops : \A j \in stops : i <= j
         IN <<SubSeq(t, 1, n - 1)>> \o SplitWS(Slice(t, n + 1, Len(t)))

\* str.split(sep) for a non-empty separator: every piece, empty ones included
RECURSIVE SplitOn(_, _)
SplitOn(s, sep) ==
    LET hits == {i \in 1..Len(s) : OccursAt(sep, s, i)} IN
    IF hits = {} THEN <<s>>
    ELSE LET n == CHOOSE i \in hits : \A j \in hits : i <= j
         IN <<Slice(s, 1, n - 1)>> \o SplitOn(Slice(s, n + Len(sep), Len(s)), sep)

\* sep.join(parts)
RECURSIVE Join(_, _)
Join(parts, sep) ==
    IF parts = <<>> THEN <<>>
    ELSE IF Len(parts) = 1 THEN parts[1]
    ELSE parts[1] \o sep \o Join(Tail(parts), sep)

(***************************************************************************)
(* Constants of retrieval_pipeline.py                                      *)
(***************************************************************************)
\* retrieval_pipeline.py:123-129
cybersecurity_keywords == <<
    <<"a","t","t","a","c","k">>,
    <<"p","a","t","h">>,
    <<"v","u","l","n","e","r","a","b","i","l","i","t","y">>,
    <<"c","y","b","e","r">>,
    <<"s","e","c","u","r","i","t","y">>,
    <<"n","e","t","w","o","r","k">>,
    <<"r","d","p">>,
    <<"a","c","c","e","s","s">>,
    <<"a","d","m","i","n">>,
    <<"d","o","m","a","i","n">>,
    <<"B","l","o","o","d","H","o","u","n","d">>,
    <<"k","e","r","b","e","r","o","s">>,
    <<"u","s","e","r">>,
    <<"c","o","m","p","u","t","e","r">>,
    <<"g","r","o","u","p">>,
    <<"p","a","s","s","w","o","r","d">>,
    <<"h","a","c","k">>,
    <<"b","r","e","a","c","h">>,
    <<"p","e","r","m","i","s","s","i","o","n">>,
    <<"e","x","p","l","o","i","t">>,
    <<"a","c","t","i","v","e"," ","d","i","r","e","c","t","o","r","y">>,
    <<"a","d">>,
    <<"w","i","n","d","o","w","s">>,
    <<"s","e","s","s","i","o","n">>,
    <<"t","h","r","e","a","t">>,
    <<"p","r","i","v","i","l","e","g","e">>,
    <<"e","s","c","a","l","a","t","i","o","n">>,
    <<"l","a","t","e","r","a","l"," ","m","o","v","e","m","e","n","t">> >>

\* retrieval_pipeline.py:300
DefaultUser == <<"H","i","l","a","r","y","O","l","i","v","i","a","2","2","6",
        "@","T","e","s","t","C","o","m","p","a","n","y",".","L","o","c","a",
        "l">>

\* retrieval_pipeline.py:332
DefaultComputer == <<"D","C","0","1",".","T","E","S","T","C","O","M","P","A",
        "N","Y",".","L","O","C","A","L">>

DotLocal == <<".","l","o","c","a","l">>

\* retrieval_pipeline.py:327
FqdnDomains == <<
    <<".","l","o","c","a","l">>,
    <<".","c","o","m">>,
    <<".","n","e","t">>,
    <<".","o","r","g">> >>

KwAttack == <<"a","t","t","a","c","k">>

KwPath == <<"p","a","t","h">>

KwHighValue == <<"h","i","g","h"," ","v","a","l","u","e">>

KwTarget == <<"t","a","r","g","e","t">>

KwAdmin == <<"a","d","m","i","n">>

KwAdministrator == <<"a","d","m","i","n","i","s","t","r","a","t","o","r">>

KwKerberos == <<"k","e","r","b","e","r","o","s">>

KwVulnerability == <<"v","u","l","n","e","r","a","b","i","l","i","t","y">>

\* retrieval_pipeline.py:170, the target before extraction overrides it
AttackDefaultTarget == DefaultComputer

\* retrieval_pipeline.py:292 and :320, the characters word.strip() removes
PunctChars == {",", ".", ";", ":", "!", "?", "(", ")", "[", "]", "{", "}",
               "\"", "'"}

(***************************************************************************)
(* Bounded inputs: a query is at most MaxWords phrases joined by spaces    *)
(***************************************************************************)
MaxWords == 2

W_hello == <<"h","e","l","l","o">>

W_network == <<"N","e","t","w","o","r","k">>

W_attack == <<"a","t","t","a","c","k">>

W_path == <<"p","a","t","h">>

W_target == <<"t","a","r","g","e","t">>

W_admin == <<"A","d","m","i","n">>

W_kerberos == <<"k","e","r","b","e","r","o","s">>

W_alice == <<"a","l","@","x",".","l","o","c","a","l","?">>

W_dotlocal == <<".","l","o","c","a","l">>

W_dc == <<"D","C","9">>

W_fqdn == <<"a",".","b",".","c","o","m">>

W_top == <<"t","o","p"," ","a","t","t","a","c","k"," ","t","y","p","e","s",
        " ","b","y"," ","f","i","n","a","n","c","i","a","l"," ","l","o","s",
        "s">>

N_ws1 == <<"W","S","1">>

N_grp == <<"A","D","M","I","N","S">>

N_bob == <<"b","o","b">>

N_desc == <<"i","t"," ","s","t","a","f","f">>

\* The phrases a query is made of; a query uses each at most once, in this order
QueryWords == <<W_hello, W_top, W_kerberos, W_admin, W_target, W_dc, W_attack,
                W_alice, W_fqdn, W_path, W_dotlocal, W_network>>

RECURSIVE PhrasesOf(_, _)
PhrasesOf(chosen, i) ==
    IF i > Len(QueryWords) THEN <<>>
    ELSE (IF i \in chosen THEN <<QueryWords[i]>> ELSE <<>>) \o PhrasesOf(chosen, i + 1)

Queries ==
    {Join(PhrasesOf(chosen, 1), <<" ">>) :
        chosen \in {c \in SUBSET DOMAIN QueryWords : Cardinality(c) \in 1..MaxWords}}

(***************************************************************************)
(* Entity extraction, retrieval_pipeline.py:276-334                        *)
(***************************************************************************)
clean_word(word) == Strip(word, PunctChars)

\* line 295
looks_like_user(cw) == Contains(cw, <<"@">>) \/ EndsWith(Lower(cw), DotLocal)

RECURSIVE users_in(_)
users_in(words) ==
    IF words = <<>> THEN <<>>
    ELSE (IF looks_like_user(clean_word(words[1]))
          THEN <<clean_word(words[1])>> ELSE <<>>) \o users_in(Tail(words))

\* a lookup that always falls back to the demo user
extract_potential_users_default_only(text) == <<DefaultUser>>

extract_potential_users(text) ==
    LET found == users_in(SplitWS(text)) IN
    IF found = <<>> THEN <<DefaultUser>> ELSE found

\* line 323
looks_like_short_host(cw) == Upper(cw) = cw /\ Len(cw) <= 4 /\ IsAlnum(cw)

\* line 327
looks_like_fqdn(cw) ==
    /\ CountChar(cw, ".") >= 2
    /\ \E i \in DOMAIN FqdnDomains : Contains(Lower(cw), FqdnDomains[i])

RECURSIVE computers_in(_)
computers_in(words) ==
    IF words = <<>> THEN <<>>
    ELSE LET cw == clean_word(words[1]) IN
         (IF looks_like_short_host(cw) THEN <<cw>> ELSE <<>>)
         \o (IF looks_like_fqdn(cw) THEN <<cw>> ELSE <<>>)
         \o computers_in(Tail(words))

\* an extraction that reports only what it found
extract_potential_computers_found_only(text) == computers_in(SplitWS(text))

extract_potential_computers(text) ==
    LET found == computers_in(SplitWS(text)) IN
    IF found = <<>> THEN <<DefaultComputer>> ELSE found

\* a gate that compares the keywords with the query as it was typed
is_cybersecurity_query_as_typed(q) ==
    \E i \in DOMAIN cybersecurity_keywords : Contains(q, cybersecurity_keywords[i])

\* retrieval_pipeline.py:112-135
is_cybersecurity_query(q) ==
    \E i \in DOMAIN cybersecurity_keywords :
        Contains(Lower(q), Lower(cybersecurity_keywords[i]))

(***************************************************************************)
(* Graph records.  A record (a Python dict) is a sequence of fields in     *)
(* insertion order; a value carries its Python type.                       *)
(***************************************************************************)
Field(k, kind, v) == [key |-> k, kind |-> kind, val |-> v]

StrF(k, s) == Field(k, "str", s)

NoneF(k) == Field(k, "none", <<>>)

HasKey(row, k) == \E i \in DOMAIN row : row[i].key = k

\* dict.get(k): the field, or a None field when the key is absent
Get(row, k) ==
    IF HasKey(row, k) THEN row[CHOOSE i \in DOMAIN row : row[i].key = k]
    ELSE NoneF(k)

(***************************************************************************)
(* The graph store is outside the core: a call either fails (connection or *)
(* query error) or returns one of the row lists below.                     *)
(***************************************************************************)
RdpRows == {<<>>, << <<StrF("computer", N_ws1)>> >>}

GroupRows == {<<>>, << <<StrF("group_name", N_grp), StrF("description", N_desc)>> >>}

PathRows ==
    {<<>>, << <<Field("path_nodes", "list", <<N_bob, N_ws1>>),
                Field("path_relationships", "list", <<N_grp>>),
                Field("path_length", "int", 1)>> >>}

TargetRows ==
    {<<>>, << <<StrF("computer_name", N_ws1),
                Field("admin_access_count", "int", 1),
                Field("admin_users", "list", <<N_bob>>)>> >>}

AdminRows ==
    {<<>>, << <<StrF("username", N_bob), Field("enabled", "bool", TRUE),
                NoneF("description")>> >>}

KerbRows == {<<>>, << <<StrF("username", N_bob), StrF("description", N_desc)>> >>}

KeywordRows ==
    {<<>>, << <<StrF("name", N_ws1), NoneF("description"), NoneF("type"),
                Field("labels", "list", <<N_grp>>), Field("score", "int", 1),
                StrF("related_name", N_bob), StrF("related_description", N_desc)>> >>}

\* rows of semantic_search's store query: name, labels, properties, relationships
SemanticRawRows ==
    {<<>>, << <<StrF("name", N_ws1), Field("labels", "list", <<N_grp>>),
                Field("properties", "dict", <<StrF("description", N_desc)>>),
                Field("relationships", "list",
                      << <<StrF("type", N_grp), NoneF("name"), NoneF("description")>>,
                         <<StrF("type", N_grp), StrF("name", N_bob), NoneF("description")>> >>)>> >>}

StoreFailure == [ok |-> FALSE, rows |-> <<>>]

StoreAnswers(rowsets) == {StoreFailure} \cup {[ok |-> TRUE, rows |-> r] : r \in rowsets}

\* neo4j_client.py:46-57: the rows on success, [] when the session or run raises
execute_query(answer) == IF answer.ok THEN answer.rows ELSE <<>>

Status(answer) == IF answer.ok THEN "ok" ELSE "failed"

(***************************************************************************)
(* The query text each operation hands to execute_query.  A text is a      *)
(* sequence of strings: each literal part of the source text is one        *)
(* element (runs of white space and the comment lines left out), and text  *)
(* spliced in by an f-string follows character by character.               *)
(***************************************************************************)
\* neo4j_client.py:88-121, 229-246 and 331-393: the texts written as literals
cypher_query(op) ==
    CASE op = "find_rdp_access" ->
           <<"MATCH (u:User {name: $name})-[:CAN_RDP]->(r) RETURN r.name as computer">>
      [] op = "find_user_group_memberships" ->
           <<"MATCH (u:User {name: $name})-[:MemberOf]->(g:Group) RETURN g.name as group_name, g.description as description">>
      [] op = "find_attack_paths" ->
           <<"MATCH path = shortestPath((u:User)-[:MemberOf|HasSession|AdminTo|CanRDP*1..]->(target)) WHERE target.name = $target_name AND u.enabled = true RETURN [node in nodes(path) | node.name] as path_nodes, [rel in relationships(path) | type(rel)] as path_relationships, length(path) as path_length ORDER BY path_length ASC LIMIT 10">>
      [] op = "find_high_value_targets" ->
           <<"MATCH (c:Computer) WITH c, size((c)<-[:AdminTo]-()) as inAdminCount ORDER BY inAdminCount DESC LIMIT $limit MATCH (c)<-[:AdminTo]-(u:User) RETURN c.name as computer_name, inAdminCount as admin_access_count, collect(u.name) as admin_users ORDER BY admin_access_count DESC">>
      [] op = "find_domain_admins" ->
           <<"MATCH (u:User)-[:MemberOf]->(g:Group) WHERE g.name =~ '.*DOMAIN ADMINS.*' RETURN u.name as username, u.enabled as enabled, u.description as description">>
      [] op = "find_kerberoastable_accounts" ->
           <<"MATCH (u:User) WHERE u.hasspn = true RETURN u.name as username, u.description as description">>
      [] op = "semantic_search" ->
           <<"UNWIND $keywords AS keyword MATCH (n) WHERE ( n.name IS NOT NULL AND toLower(n.name) CONTAINS toLower(keyword) ) OR ( n:Year AND toString(n.value) CONTAINS keyword ) WITH n, count(n) AS relevance ORDER BY relevance DESC LIMIT $limit OPTIONAL MATCH (n)-[r]-(related) WHERE related.name IS NOT NULL RETURN n.name AS name, labels(n) AS labels, properties(n) AS properties, collect({ type: type(r), name: related.name, description: related.description }) AS relationships">>
      [] OTHER ->
           <<"UNWIND $entities AS entity MATCH (n) WHERE n.name =~ ('(?i).*' + entity + '.*') WITH COLLECT(DISTINCT n) AS nodes LIMIT $maxNodes UNWIND nodes AS n OPTIONAL MATCH (n)-[r]-(m) WHERE m IN nodes RETURN collect(DISTINCT n) AS nodes, collect(DISTINCT r) AS relationships">>

(***************************************************************************)
(* semantic_search and its keyword extraction, neo4j_client.py:59-174      *)
(***************************************************************************)
\* neo4j_client.py:152-161
stopwords == Range(<<
    <<"a">>,
    <<"a","n">>,
    <<"t","h","e">>,
    <<"a","n","d">>,
    <<"o","r">>,
    <<"b","u","t">>,
    <<"i","s">>,
    <<"a","r","e">>,
    <<"w","a","s">>,
    <<"w","e","r","e">>,
    <<"b","e">>,
    <<"b","e","e","n">>,
    <<"b","e","i","n","g">>,
    <<"i","n">>,
    <<"o","n">>,
    <<"a","t">>,
    <<"t","o">>,
    <<"f","o","r">>,
    <<"w","i","t","h">>,
    <<"b","y">>,
    <<"a","b","o","u","t">>,
    <<"l","i","k","e">>,
    <<"t","h","r","o","u","g","h">>,
    <<"o","v","e","r">>,
    <<"b","e","f","o","r","e">>,
    <<"a","f","t","e","r">>,
    <<"b","e","t","w","e","e","n">>,
    <<"u","n","d","e","r">>,
    <<"a","b","o","v","e">>,
    <<"o","f">>,
    <<"f","r","o","m">>,
    <<"u","p">>,
    <<"d","o","w","n">>,
    <<"i","n","t","o">>,
    <<"d","u","r","i","n","g">>,
    <<"u","n","t","i","l">>,
    <<"a","f","t","e","r">>,
    <<"t","h","a","n">>,
    <<"t","h","i","s">>,
    <<"t","h","a","t">>,
    <<"t","h","e","s","e">>,
    <<"t","h","o","s","e">>,
    <<"w","h","a","t">>,
    <<"w","h","i","c","h">>,
    <<"w","h","o">>,
    <<"w","h","o","m">>,
    <<"w","h","o","s","e">>,
    <<"w","h","e","n">>,
    <<"w","h","e","r","e">>,
    <<"w","h","y">>,
    <<"h","o","w">>,
    <<"a","l","l">>,
    <<"a","n","y">>,
    <<"b","o","t","h">>,
    <<"e","a","c","h">>,
    <<"f","e","w">>,
    <<"m","o","r","e">>,
    <<"m","o","s","t">>,
    <<"o","t","h","e","r">>,
    <<"s","o","m","e">>,
    <<"s","u","c","h">>,
    <<"n","o">>,
    <<"n","o","r">>,
    <<"n","o","t">>,
    <<"o","n","l","y">>,
    <<"o","w","n">>,
    <<"s","a","m","e">>,
    <<"s","o">>,
    <<"t","h","a","n">>,
    <<"t","o","o">>,
    <<"v","e","r","y">>,
    <<"c","a","n">>,
    <<"w","i","l","l">>,
    <<"j","u","s","t">>,
    <<"s","h","o","u","l","d">>,
    <<"n","o","w">> >>)

\* neo4j_client.py:166-168
cybersecurity_terms == <<
    <<"a","t","t","a","c","k">>,
    <<"t","h","r","e","a","t">>,
    <<"v","u","l","n","e","r","a","b","i","l","i","t","y">>,
    <<"b","r","e","a","c","h">>,
    <<"m","a","l","w","a","r","e">>,
    <<"p","h","i","s","h","i","n","g">>,
    <<"r","a","n","s","o","m","w","a","r","e">>,
    <<"d","d","o","s">>,
    <<"e","x","p","l","o","i","t">>,
    <<"v","i","r","u","s">>,
    <<"t","r","o","j","a","n">>,
    <<"b","a","c","k","d","o","o","r">>,
    <<"s","e","c","u","r","i","t","y">>,
    <<"f","i","r","e","w","a","l","l">>,
    <<"e","n","c","r","y","p","t","i","o","n">> >>

WordChars == Range(UpperLetters) \cup Range(LowerLetters) \cup Digits \cup {"_"}

\* re.sub(r'[^\w\s]', ' ', text.lower())
cleaned_text(text) ==
    [i \in DOMAIN text |->
        IF LowerChar(text[i]) \in WordChars \cup Whitespace
        THEN LowerChar(text[i]) ELSE " "]

RECURSIVE without_stopwords(_)
without_stopwords(words) ==
    IF words = <<>> THEN <<>>
    ELSE (IF words[1] \in stopwords THEN <<>> ELSE <<words[1]>>)
         \o without_stopwords(Tail(words))

RECURSIVE terms_in(_, _)
terms_in(terms, cleaned) ==
    IF terms = <<>> THEN <<>>
    ELSE (IF Contains(cleaned, terms[1]) THEN <<terms[1]>> ELSE <<>>)
         \o terms_in(Tail(terms), cleaned)

extract_keywords(text) ==
    terms_in(cybersecurity_terms, cleaned_text(text))
    \o without_stopwords(SplitWS(cleaned_text(text)))

\* lines 78-82: first occurrences only, longer than 2 characters
RECURSIVE unique_keywords(_, _)
unique_keywords(kws, seen) ==
    IF kws = <<>> THEN seen
    ELSE unique_keywords(Tail(kws),
            IF kws[1] # <<>> /\ kws[1] \notin Range(seen) /\ Len(kws[1]) > 2
            THEN Append(seen, kws[1]) ELSE seen)

\* lines 131-136: one formatted result
format_semantic_result(raw) ==
    LET props == Get(raw, "properties")
        rels == Get(raw, "relationships").val
        kept == {i \in DOMAIN rels : Get(rels[i], "name").kind # "none"}
        RECURSIVE pick(_)
        pick(i) == IF i > Len(rels) THEN <<>>
                   ELSE (IF i \in kept THEN <<rels[i]>> ELSE <<>>) \o pick(i + 1)
    IN << Get(raw, "name"),
          Get(raw, "labels"),
          IF props.kind = "dict" /\ props.val # <<>> /\ HasKey(props.val, "description")
          THEN StrF("description", Get(props.val, "description").val)
          ELSE StrF("description", <<>>),
          Field("relationships", "list", pick(1)) >>

semantic_search_results(answer) ==
    LET rows == execute_query(answer) IN
    [i \in DOMAIN rows |-> format_semantic_result(rows[i])]

(***************************************************************************)
(* keyword_search, neo4j_client.py:176-202                                 *)
(***************************************************************************)
\* line 180: the terms the WHERE clause is built from
search_terms(q) ==
    LET words == SplitWS(q)
        RECURSIVE long(_)
        long(ws) == IF ws = <<>> THEN <<>>
                    ELSE (IF Len(ws[1]) > 3 THEN <<ws[1]>> ELSE <<>>) \o long(Tail(ws))
    IN long(words)

\* a store that finds something to run in any text
KeywordAnswers_any_text(q) == StoreAnswers(KeywordRows)

\* With no term the text reads "WHERE" followed by "WITH": the store rejects it.
KeywordAnswers(q) ==
    IF search_terms(q) = <<>> THEN {StoreFailure} ELSE StoreAnswers(KeywordRows)

\* line 179: one CONTAINS pair per term, the term spliced between the quotes
RECURSIVE term_clauses(_)
term_clauses(terms) ==
    IF terms = <<>> THEN <<>>
    ELSE << <<"node.name CONTAINS '">> \o terms[1]
            \o <<"' OR node.description CONTAINS '">> \o terms[1] \o <<"'">> >>
         \o term_clauses(Tail(terms))

\* lines 179-200: the f-string, with the terms and the whole query spliced in
keyword_search_query(q) ==
    <<"MATCH (node) WHERE ">> \o Join(term_clauses(search_terms(q)), <<" OR ">>)
    \o <<" WITH node, CASE WHEN node.name CONTAINS '">> \o q
    \o <<"' THEN 3 WHEN node.description CONTAINS '">> \o q
    \o <<"' THEN 2 ELSE 1 END AS relevance MATCH (node)-[r]-(related) RETURN node.name AS name, node.description AS description, node.type AS type, labels(node) AS labels, relevance AS score, related.name AS related_name, related.description AS related_description LIMIT $limit">>

\* What the store does with spliced text is the store's business.  A quote in
\* the user's text ends the string literal the text is spliced into, and what
\* follows is read as Cypher: the clauses that update the graph.
UpdatingClauses == {<<"C","R","E","A","T","E"," ">>, <<"M","E","R","G","E"," ">>,
                    <<"S","E","T"," ">>, <<"D","E","L","E","T","E"," ">>,
                    <<"R","E","M","O","V","E"," ">>}

carries_update(q) ==
    \E i \in DOMAIN q :
        /\ q[i] = "'"
        /\ \E clause \in UpdatingClauses : Contains(Upper(Slice(q, i + 1, Len(q))), clause)

\* The graphs an update spliced into keyword_search's text may leave behind:
\* a property set on some of the nodes, or every node deleted (session.run
\* commits what it ran, neo4j_client.py:50-52).
UpdatedStores(g) ==
    {[nodes |-> <<>>, edges |-> <<>>]}
    \cup {[g EXCEPT !.nodes =
              [i \in DOMAIN g.nodes |->
                  IF i \in S
                  THEN [g.nodes[i] EXCEPT !.props = Append(@, Field("ad", "int", 1))]
                  ELSE g.nodes[i]]] : S \in SUBSET DOMAIN g.nodes}

\* The text operation op sends when the user's query is q
query_text(op, q) ==
    IF op = "keyword_search" THEN keyword_search_query(q) ELSE cypher_query(op)

(***************************************************************************)
(* Context Formatter and Generation Adapter, llm_handler.py                *)
(***************************************************************************)
\* llm_handler.py:270
NoInfoSentinel == <<"N","o"," ","r","e","l","e","v","a","n","t"," ","i","n",
        "f","o","r","m","a","t","i","o","n"," ","f","o","u","n","d"," ","i",
        "n"," ","t","h","e"," ","k","n","o","w","l","e","d","g","e"," ","g",
        "r","a","p","h",".">>

\* llm_handler.py:250
EntitiesDelimiter == <<"E","N","T","I","T","I","E","S",":">>

\* llm_handler.py:120
ApologyGemini == <<"I","'","m"," ","s","o","r","r","y",","," ","I"," ","e",
        "n","c","o","u","n","t","e","r","e","d"," ","a","n"," ","e","r","r",
        "o","r"," ","w","h","i","l","e"," ","g","e","n","e","r","a","t","i",
        "n","g"," ","y","o","u","r"," ","a","n","s","w","e","r"," ","w","i",
        "t","h"," ","t","h","e"," ","G","e","m","i","n","i"," ","m","o","d",
        "e","l","."," ","E","r","r","o","r",":"," ">>

\* llm_handler.py:263 (and :123)
Apology == <<"I","'","m"," ","s","o","r","r","y",","," ","I"," ","e","n","c",
        "o","u","n","t","e","r","e","d"," ","a","n"," ","e","r","r","o","r",
        " ","w","h","i","l","e"," ","g","e","n","e","r","a","t","i","n","g",
        " ","y","o","u","r"," ","a","n","s","w","e","r","."," ","E","r","r",
        "o","r",":"," ">>

\* llm_handler.py:117
NoResponseText == <<"N","o"," ","r","e","s","p","o","n","s","e"," ","g","e",
        "n","e","r","a","t","e","d"," ","f","r","o","m"," ","t","h","e"," ",
        "m","o","d","e","l",".">>

L_Entity == <<"E","n","t","i","t","y"," ">>

L_Colon == <<":"," ">>

L_Type == <<"T","y","p","e",":"," ">>

L_Unknown == <<"U","n","k","n","o","w","n">>

L_CommaSp == <<","," ">>

L_Description == <<"D","e","s","c","r","i","p","t","i","o","n",":"," ">>

L_Related == <<"R","e","l","a","t","e","d"," ","e","n","t","i","t","i","e",
        "s",":","\n">>

L_Dash == <<"-"," ">>

L_None == <<"N","o","n","e">>

L_related_to == <<"r","e","l","a","t","e","d","_","t","o">>

\* Bounded inputs: what the generator backend may return, and the errors it may raise

T_plain == <<" ","o","k","\n">>

T_ent == <<"o","k","\n","E","N","T","I","T","I","E","S",":","\n","-"," ","W",
        "S","1","\n","-"," ","b","o","b">>

E_boom == <<"b","o","o","m">>

E_echo == <<"b","a","d"," ","E","N","T","I","T","I","E","S",":","\n","-"," ",
        "W","S","1">>

DigitSeq == <<"0","1","2","3","4","5","6","7","8","9">>

\* str(n) for n >= 0
RECURSIVE DecimalText(_)
DecimalText(n) ==
    IF n < 10 THEN <<DigitSeq[n + 1]>>
    ELSE DecimalText(n \div 10) \o <<DigitSeq[(n % 10) + 1]>>

Letters == Range(UpperLetters) \cup Range(LowerLetters)

\* str.title()
Title(s) ==
    [i \in DOMAIN s |->
        IF i = 1 \/ s[i - 1] \notin Letters THEN UpperChar(s[i]) ELSE LowerChar(s[i])]

\* str.capitalize()
Capitalize(s) ==
    [i \in DOMAIN s |-> IF i = 1 THEN UpperChar(s[i]) ELSE LowerChar(s[i])]

\* str.replace('_', ' ')
UnderscoresToSpaces(s) == [i \in DOMAIN s |-> IF s[i] = "_" THEN " " ELSE s[i]]

\* bool(value)
Truthy(f) ==
    CASE f.kind = "none" -> FALSE
      [] f.kind = "bool" -> f.val
      [] f.kind = "int" -> f.val # 0
      [] OTHER -> Len(f.val) > 0

\* the text an f-string prints for a value
TextOf(f) == IF f.kind = "none" THEN L_None ELSE f.val

\* dict.get(k, default) printed
TextOr(row, k, default) == IF HasKey(row, k) THEN TextOf(Get(row, k)) ELSE default

\* llm_handler.py:283-288
RECURSIVE relationship_lines(_)
relationship_lines(rels) ==
    IF rels = <<>> THEN <<>>
    ELSE LET rel == rels[1] IN
         L_Dash \o Title(UnderscoresToSpaces(TextOr(rel, "type", L_related_to)))
         \o L_Colon \o TextOr(rel, "name", L_Unknown)
         \o (IF Truthy(Get(rel, "description"))
             THEN <<" ", "(">> \o TextOf(Get(rel, "description")) \o <<")">>
             ELSE <<>>)
         \o <<"\n">> \o relationship_lines(Tail(rels))

\* llm_handler.py:275-288
context_section(i, item) ==
    L_Entity \o DecimalText(i) \o L_Colon \o TextOr(item, "name", L_Unknown) \o <<"\n">>
    \o L_Type
    \o (IF HasKey(item, "labels") THEN Join(Get(item, "labels").val, L_CommaSp)
        ELSE L_Unknown)
    \o <<"\n">>
    \o (IF Truthy(Get(item, "description"))
        THEN L_Description \o TextOf(Get(item, "description")) \o <<"\n">>
        ELSE <<>>)
    \o (IF Truthy(Get(item, "relationships"))
        THEN L_Related \o relationship_lines(Get(item, "relationships").val)
        ELSE <<>>)

\* a formatter that numbers the sections in order but fills them from the
\* last record to the first
context_sections_backwards(kg_context) ==
    [i \in DOMAIN kg_context |->
        context_section(i, kg_context[Len(kg_context) + 1 - i])]

context_sections(kg_context) ==
    [i \in DOMAIN kg_context |-> context_section(i, kg_context[i])]

\* a formatter with no text for "nothing found"
format_kg_context_joined(kg_context) ==
    Join(context_sections(kg_context), <<"\n">>)

\* llm_handler.py:267-292
format_kg_context(kg_context) ==
    IF kg_context = <<>> THEN NoInfoSentinel
    ELSE Join(context_sections(kg_context), <<"\n">>)

\* llm_handler.py:194-199
RECURSIVE format_history(_)
format_history(history) ==
    IF history = <<>> THEN <<>>
    ELSE Capitalize(history[1].role) \o L_Colon \o history[1].content \o <<"\n">>
         \o format_history(Tail(history))

\* llm_handler.py:254
RECURSIVE entity_lines(_)
entity_lines(lines) ==
    IF lines = <<>> THEN <<>>
    ELSE (IF Strip(lines[1], Whitespace) # <<>>
          THEN <<LStrip(Strip(lines[1], Whitespace), {"-", " "})>>
          ELSE <<>>)
         \o entity_lines(Tail(lines))

\* a parser that trims the answer on both branches
parse_structured_trimmed(result) ==
    IF Contains(result, EntitiesDelimiter)
    THEN LET parts == SplitOn(result, EntitiesDelimiter) IN
         [answer |-> Strip(parts[1], Whitespace),
          entities |-> entity_lines(SplitOn(Strip(parts[2], Whitespace), <<"\n">>))]
    ELSE [answer |-> Strip(result, Whitespace), entities |-> <<>>]

\* llm_handler.py:245-259
parse_structured(result) ==
    IF Contains(result, EntitiesDelimiter)
    THEN LET parts == SplitOn(result, EntitiesDelimiter) IN
         [answer |-> Strip(parts[1], Whitespace),
          entities |-> entity_lines(SplitOn(Strip(parts[2], Whitespace), <<"\n">>))]
    ELSE [answer |-> result, entities |-> <<>>]

\* What one call of the backend does: return a text, return an object without
\* text (hosted API only), or raise an error with a message.
ResponseTexts == {T_plain, T_ent}

ErrorTexts == {E_boom, E_echo}

BackendOutcomes(mock) ==
    {[kind |-> "text", text |-> t] : t \in ResponseTexts}
    \cup {[kind |-> "error", text |-> e] : e \in ErrorTexts}
    \cup (IF mock THEN {} ELSE {[kind |-> "notext", text |-> <<>>]})

\* a hosted-API branch that hands the error text back as the completion
get_llm_response_bare(outcome) ==
    IF outcome.kind = "notext" THEN NoResponseText ELSE outcome.text

\* llm_handler.py:100-123, the hosted-API branch
get_llm_response(outcome) ==
    CASE outcome.kind = "text" -> outcome.text
      [] outcome.kind = "notext" -> NoResponseText
      [] OTHER -> ApologyGemini \o outcome.text

\* llm_handler.py:232-265
generate_structured_answer(mock, outcome) ==
    IF mock
    THEN IF outcome.kind = "error"
         THEN [answer |-> Apology \o outcome.text, entities |-> <<>>]
         ELSE parse_structured(outcome.text)
    ELSE parse_structured(get_llm_response(outcome))

(***************************************************************************)
(* RAGPipeline.process_query, retrieval_pipeline.py:49-245                 *)
(***************************************************************************)
\* lines 168, 183, 189, 195
attack_path_trigger(q) == Contains(Lower(q), KwAttack) /\ Contains(Lower(q), KwPath)

high_value_trigger(q) == Contains(Lower(q), KwHighValue) \/ Contains(Lower(q), KwTarget)

admin_trigger(q) == Contains(Lower(q), KwAdmin) \/ Contains(Lower(q), KwAdministrator)

kerberos_trigger(q) == Contains(Lower(q), KwKerberos) \/ Contains(Lower(q), KwVulnerability)

StageOrder == <<"attack", "target", "admin", "kerb">>

Fires(stage, q) ==
    CASE stage = "attack" -> attack_path_trigger(q)
      [] stage = "target" -> high_value_trigger(q)
      [] stage = "admin" -> admin_trigger(q)
      [] OTHER -> kerberos_trigger(q)

\* a lookup that is tried again while nothing has been found
AfterStage_again(i, q, results) ==
    LET later == {j \in DOMAIN StageOrder : j > i /\ Fires(StageOrder[j], q)} IN
    IF i > 0 /\ results = <<>> THEN StageOrder[i]
    ELSE IF later # {} THEN StageOrder[CHOOSE j \in later : \A k \in later : j <= k]
    ELSE IF results = <<>> THEN "keyword" ELSE "generate"

\* a router without the generic fallback
AfterStage_never_keyword(i, q, results) ==
    LET later == {j \in DOMAIN StageOrder : j > i /\ Fires(StageOrder[j], q)} IN
    IF later # {} THEN StageOrder[CHOOSE j \in later : \A k \in later : j <= k]
    ELSE "generate"

\* a fallback that runs the generic search whatever was found
AfterStage_always_keyword(i, q, results) ==
    LET later == {j \in DOMAIN StageOrder : j > i /\ Fires(StageOrder[j], q)} IN
    IF later # {} THEN StageOrder[CHOOSE j \in later : \A k \in later : j <= k]
    ELSE "keyword"

\* Where control goes after stage number i (0: after the per-user loop): the
\* next trigger that fires, else the generic search when nothing was found
\* (line 201), else the generator.
AfterStage(i, q, results) ==
    LET later == {j \in DOMAIN StageOrder : j > i /\ Fires(StageOrder[j], q)} IN
    IF later # {} THEN StageOrder[CHOOSE j \in later : \A k \in later : j <= k]
    ELSE IF results = <<>> THEN "keyword" ELSE "generate"

\* a target that is the demonstration host whatever the query names
attack_target_placeholder(q) == AttackDefaultTarget

\* lines 169-175
attack_target(q) ==
    LET potential_targets == extract_potential_computers(q) IN
    IF potential_targets # <<>> THEN potential_targets[1] ELSE AttackDefaultTarget

\* lines 229-232: the string values of the records, description and properties left out
RECURSIVE string_values(_)
string_values(row) ==
    IF row = <<>> THEN <<>>
    ELSE (IF row[1].kind = "str" /\ row[1].key \notin {"description", "properties"}
          THEN <<row[1].val>> ELSE <<>>)
         \o string_values(Tail(row))

RECURSIVE record_strings(_)
record_strings(rows) ==
    IF rows = <<>> THEN <<>>
    ELSE string_values(rows[1]) \o record_strings(Tail(rows))

\* lines 93-95
RECURSIVE record_names(_)
record_names(rows) ==
    IF rows = <<>> THEN <<>>
    ELSE (IF Truthy(Get(rows[1], "name")) THEN <<Get(rows[1], "name").val>> ELSE <<>>)
         \o record_names(Tail(rows))

\* lines 216-232
cyber_entities_for_graph(sa, users, q, rows) ==
    sa.entities \o users \o extract_potential_computers(q) \o record_strings(rows)

\* a pool that always holds one candidate more
general_entities_for_graph_with_query(sa, rows, ner) ==
    <<W_hello>> \o sa.entities \o record_names(rows) \o ner

\* lines 83-98
general_entities_for_graph(sa, rows, ner) == sa.entities \o record_names(rows) \o ner

NoneValue == [kind |-> "none"]

\* Bounded inputs: the chat history of a request, and what the NER model yields
Histories == {<<>>, <<[role |-> <<"u","s","e","r">>, content |-> W_hello]>>}

NerOutcomes == {<<>>, <<N_bob>>}

VARIABLES
    query,               \* the request's query text
    chat_history,        \* the request's chat history
    use_mock,            \* LLMHandler.use_mock, set at construction
    pc,                  \* where the call under way is
    domain,              \* "cybersecurity" or "general" once classified
    potential_users,     \* _extract_potential_users(query)
    userIdx,             \* position of the per-user loop, line 156
    extracted_entities,  \* _extract_entities(query), line 66
    cypher_results,      \* cypher_results / kg_results / kg_context
    calls,               \* the Graph Access operations invoked so far
    backend,             \* what the generator backend did when called
    generator_calls,     \* how many times the backend was called
    formatted_context,   \* _format_kg_context(kg_context)
    history_text,        \* the chat history as prompt text
    structured_answer,   \* generate_structured_answer's return value
    response,            \* process_query's return value
    user_runs,           \* what each _extract_potential_users(query) returned
    computer_runs,       \* what each _extract_potential_computers(query) returned
    store,               \* the graph held by the store: nodes and edges
    entities,            \* get_visualization_subgraph's entities argument
    max_nodes,           \* get_visualization_subgraph's max_nodes argument
    hydrated,            \* whether rows carry graph objects or plain values
    subgraph,            \* get_visualization_subgraph's return value
    open_sessions,       \* the driver sessions acquired and not yet released
    exec,                \* the client call under way, and what the calls before it returned
    parked               \* the local variables of a second request, while it does not run

vars == <<query, chat_history, use_mock, pc, domain, potential_users, userIdx,
          extracted_entities, cypher_results, calls, backend, generator_calls,
          formatted_context,
          history_text, structured_answer, response, user_runs, computer_runs,
          store, entities, max_nodes, hydrated, subgraph, open_sessions, exec,
          parked>>

request == <<query, chat_history, use_mock>>

generation == <<backend, generator_calls, formatted_context, history_text,
                structured_answer>>

retrieval == <<domain, potential_users, userIdx, extracted_entities, calls>>

extraction == <<user_runs, computer_runs>>

visualization == <<store, entities, max_nodes, hydrated, subgraph>>

sessions == <<open_sessions, exec>>

\* what belongs to the client calls made on their own and to a second request
elsewhere == <<sessions, parked>>

\* No request under way, nothing retrieved or generated yet
PipelineIdle ==
    /\ domain = ""
    /\ potential_users = <<>>
    /\ userIdx = 0
    /\ extracted_entities = <<>>
    /\ calls = <<>>
    /\ backend = [kind |-> "none", text |-> <<>>]
    /\ generator_calls = 0
    /\ formatted_context = <<>>
    /\ history_text = <<>>
    /\ structured_answer = [answer |-> <<>>, entities |-> <<>>]
    /\ response = [returned |-> FALSE]

ExtractionIdle ==
    /\ user_runs = <<>>
    /\ computer_runs = <<>>

VisualizationIdle ==
    /\ store = [nodes |-> <<>>, edges |-> <<>>]
    /\ entities = <<>>
    /\ max_nodes = 15
    /\ hydrated = TRUE
    /\ subgraph = [returned |-> FALSE]

\* one request at a time
SingleRequest == parked = [pc |-> "none"]

\* No client call under way on its own, no session open
SessionsIdle ==
    /\ open_sessions = 0
    /\ exec = [phase |-> "idle", op |-> "", acquired |-> 0, runs |-> 0, log |-> <<>>]

Init ==
    /\ query \in Queries
    /\ chat_history \in Histories
    /\ use_mock \in BOOLEAN
    /\ pc = "start"
    /\ cypher_results = <<>>
    /\ PipelineIdle
    /\ ExtractionIdle
    /\ SessionsIdle
    /\ SingleRequest
    /\ VisualizationIdle

\* One entry per operation invoked: its argument, the query text it sent, how
\* the store call ended ("ok", "failed", or "noquery" when none was issued) and
\* the rows it returned.
Invoke(op, arg, status, rows) ==
    Append(calls, [op |-> op, arg |-> arg,
                   text |-> IF status = "noquery" THEN <<>> ELSE query_text(op, query),
                   status |-> status, n |-> Len(rows)])

\* rows that take the place of what was gathered before
Extend_replace(rows) == IF rows # <<>> THEN rows ELSE cypher_results

\* "if rows: cypher_results.extend(rows)"
Extend(rows) == IF rows # <<>> THEN cypher_results \o rows ELSE cypher_results

\* lines 61-66 and 148-155
ProcessQuery ==
    /\ pc = "start"
    /\ IF is_cybersecurity_query(query)
       THEN /\ domain' = "cybersecurity"
            /\ potential_users' = extract_potential_users(query)
            /\ userIdx' = 1
            /\ pc' = IF potential_users' # <<>> THEN "rdp"
                     ELSE AfterStage(0, query, <<>>)
            /\ UNCHANGED extracted_entities
       ELSE /\ domain' = "general"
            /\ extracted_entities' \in NerOutcomes
            /\ pc' = "semantic"
            /\ UNCHANGED <<potential_users, userIdx>>
    /\ UNCHANGED <<extraction, visualization, elsewhere>>
    /\ UNCHANGED <<request, cypher_results, calls, generation, response>>

\* neo4j_client.py:331-337
find_rdp_access(answer) == execute_query(answer)

\* lines 158-160
FindRdpAccess ==
    /\ pc = "rdp"
    /\ \E answer \in StoreAnswers(RdpRows) :
          /\ calls' = Invoke("find_rdp_access", potential_users[userIdx], Status(answer),
                             find_rdp_access(answer))
          /\ cypher_results' = Extend(find_rdp_access(answer))
    /\ pc' = "groups"
    /\ UNCHANGED <<extraction, visualization, elsewhere>>
    /\ UNCHANGED <<request, domain, potential_users, userIdx, extracted_entities,
                   generation, response>>

\* neo4j_client.py:369-375
find_user_group_memberships(answer) == execute_query(answer)

\* lines 163-165, and the loop's next round
FindUserGroupMemberships ==
    /\ pc = "groups"
    /\ \E answer \in StoreAnswers(GroupRows) :
          /\ calls' = Invoke("find_user_group_memberships", potential_users[userIdx],
                             Status(answer), find_user_group_memberships(answer))
          /\ cypher_results' = Extend(find_user_group_memberships(answer))
    /\ userIdx' = userIdx + 1
    /\ pc' = IF userIdx < Len(potential_users) THEN "rdp"
             ELSE AfterStage(0, query, cypher_results')
    /\ UNCHANGED <<extraction, visualization, elsewhere>>
    /\ UNCHANGED <<request, domain, potential_users, extracted_entities,
                   generation, response>>

\* neo4j_client.py:339-351
find_attack_paths(answer) == execute_query(answer)

\* lines 168-180
FindAttackPaths ==
    /\ pc = "attack"
    /\ \E answer \in StoreAnswers(PathRows) :
          /\ calls' = Invoke("find_attack_paths", attack_target(query), Status(answer),
                             find_attack_paths(answer))
          /\ cypher_results' = Extend(find_attack_paths(answer))
    /\ pc' = AfterStage(1, query, cypher_results')
    /\ UNCHANGED <<extraction, visualization, elsewhere>>
    /\ UNCHANGED <<request, domain, potential_users, userIdx, extracted_entities,
                   generation, response>>

\* neo4j_client.py:353-367
find_high_value_targets(answer) == execute_query(answer)

\* lines 183-186
FindHighValueTargets ==
    /\ pc = "target"
    /\ \E answer \in StoreAnswers(TargetRows) :
          /\ calls' = Invoke("find_high_value_targets", <<>>, Status(answer),
                             find_high_value_targets(answer))
          /\ cypher_results' = Extend(find_high_value_targets(answer))
    /\ pc' = AfterStage(2, query, cypher_results')
    /\ UNCHANGED <<extraction, visualization, elsewhere>>
    /\ UNCHANGED <<request, domain, potential_users, userIdx, extracted_entities,
                   generation, response>>

\* neo4j_client.py:377-384
find_domain_admins(answer) == execute_query(answer)

\* lines 189-192
FindDomainAdmins ==
    /\ pc = "admin"
    /\ \E answer \in StoreAnswers(AdminRows) :
          /\ calls' = Invoke("find_domain_admins", <<>>, Status(answer),
                             find_domain_admins(answer))
          /\ cypher_results' = Extend(find_domain_admins(answer))
    /\ pc' = AfterStage(3, query, cypher_results')
    /\ UNCHANGED <<extraction, visualization, elsewhere>>
    /\ UNCHANGED <<request, domain, potential_users, userIdx, extracted_entities,
                   generation, response>>

\* neo4j_client.py:386-393
find_kerberoastable_accounts(answer) == execute_query(answer)

\* lines 195-198
FindKerberoastableAccounts ==
    /\ pc = "kerb"
    /\ \E answer \in StoreAnswers(KerbRows) :
          /\ calls' = Invoke("find_kerberoastable_accounts", <<>>, Status(answer),
                             find_kerberoastable_accounts(answer))
          /\ cypher_results' = Extend(find_kerberoastable_accounts(answer))
    /\ pc' = AfterStage(4, query, cypher_results')
    /\ UNCHANGED <<extraction, visualization, elsewhere>>
    /\ UNCHANGED <<request, domain, potential_users, userIdx, extracted_entities,
                   generation, response>>

\* neo4j_client.py:176-202
keyword_search(answer) == execute_query(answer)

\* lines 201-202
KeywordSearch ==
    /\ pc = "keyword"
    /\ \E answer \in KeywordAnswers(query) :
          /\ calls' = Invoke("keyword_search", query, Status(answer), keyword_search(answer))
          /\ cypher_results' = keyword_search(answer)
          /\ IF answer.ok /\ carries_update(query)
             THEN store' \in UpdatedStores(store)
             ELSE store' = store
    /\ pc' = "generate"
    /\ UNCHANGED <<extraction, entities, max_nodes, hydrated, subgraph, elsewhere>>
    /\ UNCHANGED <<request, domain, potential_users, userIdx, extracted_entities,
                   generation, response>>

\* line 69 with neo4j_client.py:59-143
SemanticSearch ==
    /\ pc = "semantic"
    /\ IF unique_keywords(extract_keywords(query), <<>>) = <<>>
       THEN /\ calls' = Invoke("semantic_search", query, "noquery", <<>>)
            /\ cypher_results' = <<>>
       ELSE \E answer \in StoreAnswers(SemanticRawRows) :
               /\ calls' = Invoke("semantic_search", query, Status(answer),
                                  semantic_search_results(answer))
               /\ cypher_results' = semantic_search_results(answer)
    /\ pc' = "generate"
    /\ UNCHANGED <<extraction, visualization, elsewhere>>
    /\ UNCHANGED <<request, domain, potential_users, userIdx, extracted_entities,
                   generation, response>>

\* llm_handler.py:173-265, one call: the backend does one of `outcomes`
GenerateFrom(outcomes, after) ==
    /\ pc = "generate"
    /\ formatted_context' = format_kg_context(cypher_results)
    /\ history_text' = format_history(chat_history)
    /\ \E outcome \in outcomes :
          /\ backend' = outcome
          /\ generator_calls' = generator_calls + 1
          /\ structured_answer' = generate_structured_answer(use_mock, outcome)
    /\ pc' = after
    /\ UNCHANGED <<extraction, visualization, elsewhere>>
    /\ UNCHANGED <<request, domain, potential_users, userIdx, extracted_entities,
                   cypher_results, calls, response>>

\* a search that is made up for after the generator has answered
AfterGenerate_late_search(results) == IF results = <<>> THEN "keyword" ELSE "graph"

\* lines 76-79 and 210-213: whatever the retrieval left, the statement after
\* the generator call starts the entity pool of the graph stage
AfterGenerate(results) == "graph"

\* lines 72-76 and 205-210
GenerateStructuredAnswer ==
    GenerateFrom(BackendOutcomes(use_mock), AfterGenerate(cypher_results))

\* lines 100-101 and 234-235: unique_entities = list(set(entities_for_graph))
unique_entities ==
    Range(IF domain = "cybersecurity"
          THEN cyber_entities_for_graph(structured_answer, potential_users, query,
                                        cypher_results)
          ELSE general_entities_for_graph(structured_answer, cypher_results,
                                          extracted_entities))

\* Neo4jClient defines get_visualization_subgraph (neo4j_client.py:204) and no
\* get_subgraph_for_entities: the attribute lookup of lines 103 and 237 raises
\* AttributeError.
client_has_get_subgraph_for_entities == FALSE

\* lines 78-110 and 212-245
BuildResponse ==
    /\ pc = "graph"
    /\ IF unique_entities # {}
       THEN IF client_has_get_subgraph_for_entities
            THEN /\ pc' = "subgraph"
                 /\ UNCHANGED response
            ELSE /\ pc' = "raised"
                 /\ UNCHANGED response
       ELSE /\ pc' = "done"
            /\ response' = [returned |-> TRUE,
                            answer |-> structured_answer.answer,
                            sources |-> cypher_results,
                            graph_data |-> NoneValue]
    /\ UNCHANGED <<extraction, visualization, elsewhere>>
    /\ UNCHANGED <<request, domain, potential_users, userIdx, extracted_entities,
                   cypher_results, calls, generation>>

Next ==
    \/ ProcessQuery
    \/ FindRdpAccess
    \/ FindUserGroupMemberships
    \/ FindAttackPaths
    \/ FindHighValueTargets
    \/ FindDomainAdmins
    \/ FindKerberoastableAccounts
    \/ KeywordSearch
    \/ SemanticSearch
    \/ GenerateStructuredAnswer
    \/ BuildResponse

(***************************************************************************)
(* The entity extractors called on their own, any number of times over the *)
(* same text: retrieval_pipeline.py:276-334                                *)
(***************************************************************************)
MaxRuns == 2

W_punct == <<"?","!"," ",".",".",".">>

\* a token with two dots and a top-level suffix in its middle
W_mid == <<"a",".","c","o","m",".","b">>

ExtractTexts ==
    Queries \cup {<<>>, <<" ">>, W_punct, W_mid, Join(<<W_dc, W_mid, W_dc>>, <<" ">>)}

InitExtract ==
    /\ query \in ExtractTexts
    /\ chat_history = <<>>
    /\ use_mock = TRUE
    /\ pc = "extract"
    /\ cypher_results = <<>>
    /\ PipelineIdle
    /\ ExtractionIdle
    /\ SessionsIdle
    /\ SingleRequest
    /\ VisualizationIdle

\* lines 276-302
ExtractPotentialUsers ==
    /\ pc = "extract"
    /\ Len(user_runs) < MaxRuns
    /\ user_runs' = Append(user_runs, extract_potential_users(query))
    /\ UNCHANGED <<request, pc, cypher_results, retrieval, generation, response,
                   computer_runs, visualization, elsewhere>>

\* lines 304-334
ExtractPotentialComputers ==
    /\ pc = "extract"
    /\ Len(computer_runs) < MaxRuns
    /\ computer_runs' = Append(computer_runs, extract_potential_computers(query))
    /\ UNCHANGED <<request, pc, cypher_results, retrieval, generation, response,
                   user_runs, visualization, elsewhere>>

NextExtract ==
    \/ ExtractPotentialUsers
    \/ ExtractPotentialComputers

SpecExtract == InitExtract /\ [][NextExtract]_vars

(***************************************************************************)
(* LLMHandler.generate_structured_answer called on its own with any graph  *)
(* context and any backend response: llm_handler.py:173-292                *)
(***************************************************************************)
MaxPieces == 2

\* what a backend response is assembled from
ResponsePieces == {
    <<"o","k">>, <<" ">>, <<"\n">>, <<"-"," ">>, <<"W","S","1">>,
    <<"E","N","T","I","T","I","E","S",":">>, <<"E","N","T","I","T","I","E","S">>,
    <<":">>, <<"e","n","t","i","t","i","e","s",":">>}

RECURSIVE TextsOf(_)
TextsOf(n) ==
    IF n = 0 THEN {<<>>}
    ELSE LET shorter == TextsOf(n - 1) IN
         shorter \cup {t \o piece : t \in shorter, piece \in ResponsePieces}

\* responses with an entities section: a name that begins with a dash, and a
\* second delimiter inside the section
T_dash == <<"o","k","\n","E","N","T","I","T","I","E","S",":","\n","-"," ","W",
        "S","1","\n","-"," ","-","g","r","p">>

T_twice == <<"o","k","\n","E","N","T","I","T","I","E","S",":","\n","-"," ",
        "W","S","1","\n","E","N","T","I","T","I","E","S",":","\n","-"," ","g",
        "r","p">>

AnyResponseTexts == TextsOf(MaxPieces) \cup {T_ent, T_dash, T_twice}

AnyBackendOutcomes(mock) ==
    {[kind |-> "text", text |-> t] : t \in AnyResponseTexts}
    \cup {[kind |-> "error", text |-> e] : e \in ErrorTexts}
    \cup (IF mock THEN {} ELSE {[kind |-> "notext", text |-> <<>>]})

\* the RDP-access rows gathered for two principals: the same computer twice,
\* two computers
RdpLists ==
    { << <<StrF("computer", N_ws1)>>, <<StrF("computer", c)>> >> : c \in {N_ws1, N_bob} }

\* two named records in either order
NamedLists ==
    { << <<StrF("name", a), Field("labels", "list", <<N_grp>>)>>,
         <<StrF("name", b), StrF("description", N_desc)>> >> :
      a \in {N_ws1, N_bob}, b \in {N_ws1, N_bob} }

\* graph contexts: nothing, the rows of one operation, or of two
ContextLists ==
    LET rows == UNION {RdpRows, GroupRows, PathRows, TargetRows, AdminRows,
                       KerbRows, KeywordRows,
                       {semantic_search_results([ok |-> TRUE, rows |-> r]) :
                            r \in SemanticRawRows}}
    IN  rows \cup {a \o b : a \in KeywordRows, b \in rows} \cup RdpLists \cup NamedLists

InitGenerate ==
    /\ query = W_hello
    /\ chat_history \in Histories
    /\ use_mock \in BOOLEAN
    /\ pc = "generate"
    /\ cypher_results \in ContextLists
    /\ PipelineIdle
    /\ ExtractionIdle
    /\ SessionsIdle
    /\ SingleRequest
    /\ VisualizationIdle

GenerateDirect == GenerateFrom(AnyBackendOutcomes(use_mock), "generated")

NextGenerate == GenerateDirect

SpecGenerate == InitGenerate /\ [][NextGenerate]_vars

(***************************************************************************)
(* Neo4jClient.get_visualization_subgraph, neo4j_client.py:204-328         *)
(***************************************************************************)
MaxEdges == 2

MaxEntities == 2

N_ws10 == <<"w","s","1","0">>

L_Computer == <<"C","o","m","p","u","t","e","r">>

L_User == <<"U","s","e","r">>

L_AdminTo == <<"A","d","m","i","n","T","o">>

L_MemberOf == <<"M","e","m","b","e","r","O","f">>

L_NodeDash == <<"N","o","d","e","-">>

\* The nodes of the store: internal id, labels, properties
StoreNodePool == <<
    [id |-> 7, labels |-> <<L_Computer>>, props |-> <<StrF("name", N_ws1)>>],
    [id |-> 8, labels |-> <<L_User>>, props |-> <<StrF("name", N_bob)>>],
    [id |-> 9, labels |-> <<>>, props |-> <<StrF("name", N_ws10)>>],
    [id |-> 4, labels |-> <<L_User>>, props |-> <<>>] >>

\* The edges a store may hold: start node, end node, type
StoreEdgePool == <<
    [start |-> 8, end |-> 7, type |-> L_AdminTo],
    [start |-> 7, end |-> 9, type |-> L_MemberOf],
    [start |-> 7, end |-> 7, type |-> L_AdminTo],
    [start |-> 8, end |-> 4, type |-> L_MemberOf],
    [start |-> 4, end |-> 9, type |-> L_AdminTo] >>

\* the elements of seq at the positions in S, in seq's order
RECURSIVE Pick(_, _, _)
Pick(seq, S, i) ==
    IF i > Len(seq) THEN <<>>
    ELSE (IF i \in S THEN <<seq[i]>> ELSE <<>>) \o Pick(seq, S, i + 1)

Stores ==
    {[nodes |-> <<>>, edges |-> <<>>]}
    \cup {[nodes |-> StoreNodePool, edges |-> Pick(StoreEdgePool, S, 1)] :
             S \in {T \in SUBSET DOMAIN StoreEdgePool : Cardinality(T) <= MaxEdges}}

\* entity names a caller may pass: matching two nodes, one node in another case,
\* no node, empty, and one that is no regular expression
EntityPool == {<<"w","s">>, <<"B","O","B">>, <<"z","z">>, <<>>, <<"(">>}

RECURSIVE SeqsUpTo(_, _)
SeqsUpTo(S, n) ==
    IF n = 0 THEN {<<>>}
    ELSE LET shorter == SeqsUpTo(S, n - 1) IN
         shorter \cup {Append(q, x) : q \in shorter, x \in S}

EntityLists == SeqsUpTo(EntityPool, MaxEntities)

MaxNodesChoices == {1, 15}

RegexSpecial == {"(", ")", "[", "*", "+", "?", "\\", "{"}

\* "n.name =~ ('(?i).*' + entity + '.*')" for an entity of plain characters
name_matches(node, entity) ==
    /\ HasKey(node.props, "name")
    /\ Get(node.props, "name").kind = "str"
    /\ Contains(Lower(Get(node.props, "name").val), Lower(entity))

\* UNWIND $entities ... MATCH (n) WHERE ...: the matches, entity by entity
RECURSIVE matched_nodes(_, _)
matched_nodes(g, ents) ==
    IF ents = <<>> THEN <<>>
    ELSE LET match(n) == name_matches(n, ents[1]) IN
         SelectSeq(g.nodes, match) \o matched_nodes(g, Tail(ents))

\* COLLECT(DISTINCT ...)
RECURSIVE Distinct(_, _)
Distinct(seq, seen) ==
    IF seq = <<>> THEN <<>>
    ELSE IF seq[1] \in seen THEN Distinct(Tail(seq), seen)
    ELSE <<seq[1]>> \o Distinct(Tail(seq), seen \cup {seq[1]})

NodeIds(nodes) == {nodes[i].id : i \in DOMAIN nodes}

\* "OPTIONAL MATCH (n)-[r]-(m) WHERE m IN nodes", n among nodes
relationships_among(g, nodes) ==
    LET inside(r) == r.start \in NodeIds(nodes) /\ r.end \in NodeIds(nodes) IN
    SelectSeq(g.edges, inside)

\* lines 229-247: the one row the query returns
subgraph_row(g, ents) ==
    LET nodes == Distinct(matched_nodes(g, ents), {}) IN
    [nodes |-> nodes, relationships |-> relationships_among(g, nodes)]

\* What the store does with the query: it fails (no connection, or an entity
\* that is no regular expression), or returns the row
SubgraphAnswers(g, ents) ==
    {StoreFailure}
    \cup (IF \E i \in DOMAIN ents : \E j \in DOMAIN ents[i] : ents[i][j] \in RegexSpecial
          THEN {}
          ELSE {[ok |-> TRUE, rows |-> <<subgraph_row(g, ents)>>]})

EmptySubgraph == [returned |-> TRUE, nodes |-> <<>>, relationships |-> <<>>]

\* lines 264-265: node_id_map[node.id] = idx
node_id_map(nodes, hyd) ==
    IF hyd THEN [id \in NodeIds(nodes) |->
                    (CHOOSE i \in DOMAIN nodes :
                        /\ nodes[i].id = id
                        /\ \A j \in DOMAIN nodes : nodes[j].id = id => j <= i) - 1]
    ELSE <<>>

\* lines 262-284
format_node(node, idx, hyd) ==
    [id |-> idx,
     label |-> IF HasKey(node.props, "name") THEN Get(node.props, "name").val
               ELSE L_NodeDash \o DecimalText(idx),
     type |-> IF hyd /\ node.labels # <<>> THEN node.labels[1] ELSE L_Unknown,
     properties |-> node.props]

\* an endpoint written as the store's own node id
endpoint_id_raw(map, id) == [kind |-> "int", val |-> id]

\* lines 295-296: node_id_map.get(...)
endpoint_id(map, id) ==
    IF id \in DOMAIN map THEN [kind |-> "int", val |-> map[id]]
    ELSE [kind |-> "none", val |-> 0]

\* lines 288-318
RECURSIVE format_relationships(_, _, _)
format_relationships(rels, map, hyd) ==
    IF rels = <<>> \/ ~hyd THEN <<>>
    ELSE LET source_id == endpoint_id(map, rels[1].start)
             target_id == endpoint_id(map, rels[1].end)
         IN  (IF source_id.kind # "none" /\ target_id.kind # "none"
              THEN <<[source |-> source_id.val, target |-> target_id.val,
                      type |-> rels[1].type, properties |-> <<>>]>>
              ELSE <<>>)
             \o format_relationships(Tail(rels), map, hyd)

\* lines 256-323
format_subgraph(row, hyd) ==
    [returned |-> TRUE,
     nodes |-> [i \in DOMAIN row.nodes |-> format_node(row.nodes[i], i - 1, hyd)],
     relationships |-> format_relationships(row.relationships,
                                            node_id_map(row.nodes, hyd), hyd)]

NonEmptyText(e) == e # <<>>

\* lines 219 and 226
filtered_entities(ents, maxNodes) ==
    LET kept == SelectSeq(ents, NonEmptyText) IN
    SubSeq(kept, 1, IF Len(kept) < maxNodes THEN Len(kept) ELSE maxNodes)

InitSubgraph ==
    /\ query = <<>>
    /\ chat_history = <<>>
    /\ use_mock = TRUE
    /\ pc = "visualize"
    /\ cypher_results = <<>>
    /\ PipelineIdle
    /\ ExtractionIdle
    /\ SessionsIdle
    /\ SingleRequest
    /\ store \in Stores
    /\ entities \in EntityLists
    /\ max_nodes \in MaxNodesChoices
    /\ hydrated \in BOOLEAN
    /\ subgraph = [returned |-> FALSE]

\* lines 204-328
GetVisualizationSubgraph ==
    /\ pc = "visualize"
    /\ IF filtered_entities(entities, max_nodes) = <<>>
       THEN /\ subgraph' = EmptySubgraph
            /\ UNCHANGED calls
       ELSE \E answer \in SubgraphAnswers(store, filtered_entities(entities, max_nodes)) :
               /\ calls' = Invoke("get_visualization_subgraph",
                                  filtered_entities(entities, max_nodes),
                                  Status(answer), execute_query(answer))
               /\ subgraph' = IF execute_query(answer) = <<>> THEN EmptySubgraph
                              ELSE format_subgraph(execute_query(answer)[1], hydrated)
    /\ pc' = "visualized"
    /\ UNCHANGED <<request, cypher_results, domain, potential_users, userIdx,
                   extracted_entities, generation, response, extraction,
                   store, entities, max_nodes, hydrated, elsewhere>>

NextSubgraph == GetVisualizationSubgraph

SpecSubgraph == InitSubgraph /\ [][NextSubgraph]_vars

(***************************************************************************)
(* One client call step by step: the try block, the with statement that    *)
(* holds the session, the run, and the handler.  neo4j_client.py:36-57     *)
(***************************************************************************)
MaxCalls == 2

ClientCalls == {"execute_query", "test_connection"}

\* everything but the client stays as it is
ClientOnly ==
    UNCHANGED <<request, pc, cypher_results, retrieval, generation, response,
                extraction, visualization, parked>>

\* a call enters its try block (lines 38 and 51)
EnterCall ==
    /\ pc = "client"
    /\ exec.phase = "idle"
    /\ Len(exec.log) < MaxCalls
    /\ \E op \in ClientCalls :
          exec' = [exec EXCEPT !.phase = "try", !.op = op, !.acquired = 0, !.runs = 0]
    /\ UNCHANGED open_sessions
    /\ ClientOnly

\* self.driver.session(database=self.database), lines 39 and 52: the session
\* is handed over, or the driver raises
AcquireSession ==
    /\ exec.phase = "try"
    /\ \/ /\ open_sessions' = open_sessions + 1
          /\ exec' = [exec EXCEPT !.phase = "with", !.acquired = @ + 1]
       \/ /\ exec' = [exec EXCEPT !.phase = "except"]
          /\ UNCHANGED open_sessions
    /\ ClientOnly

\* session.run and the reading of its result, lines 40-41 and 53-54
RunQuery ==
    /\ exec.phase = "with"
    /\ \E answer \in StoreAnswers(IF exec.op = "execute_query" THEN RdpRows ELSE {<<>>}) :
          exec' = [exec EXCEPT !.runs = @ + 1,
                               !.phase = IF answer.ok THEN "leaving" ELSE "raising",
                               !.log = IF answer.ok
                                       THEN Append(@, [op |-> exec.op, ok |-> TRUE,
                                                       rows |-> answer.rows])
                                       ELSE @]
    /\ UNCHANGED open_sessions
    /\ ClientOnly

\* a session released on the way out of the block only if the block returned
session_released_on_return(phase) == phase = "leaving"

\* The with statement releases the session however its block is left: by the
\* return of line 41 or 54, or by an exception.
session_released(phase) == phase \in {"leaving", "raising"}

\* leaving the with block
ExitWith ==
    /\ exec.phase \in {"leaving", "raising"}
    /\ open_sessions' = IF session_released(exec.phase) THEN open_sessions - 1
                        ELSE open_sessions
    /\ exec' = [exec EXCEPT !.phase = IF exec.phase = "leaving" THEN "idle" ELSE "except"]
    /\ ClientOnly

\* except Exception, lines 42-44 and 55-57: print, and return False or []
HandleException ==
    /\ exec.phase = "except"
    /\ exec' = [exec EXCEPT !.phase = "idle",
                            !.log = Append(@, [op |-> exec.op, ok |-> FALSE, rows |-> <<>>])]
    /\ UNCHANGED open_sessions
    /\ ClientOnly

InitSession ==
    /\ query = <<>>
    /\ chat_history = <<>>
    /\ use_mock = TRUE
    /\ pc = "client"
    /\ cypher_results = <<>>
    /\ PipelineIdle
    /\ ExtractionIdle
    /\ SessionsIdle
    /\ SingleRequest
    /\ VisualizationIdle

NextSession ==
    \/ EnterCall
    \/ AcquireSession
    \/ RunQuery
    \/ ExitWith
    \/ HandleException

SpecSession == InitSession /\ [][NextSession]_vars

(***************************************************************************)
(* process_query against a store that holds a graph, for queries that      *)
(* reach every operation, one of them carrying Cypher of its own           *)
(***************************************************************************)
\* a query whose quote ends keyword_search's string literal: the text that
\* results is well-formed Cypher with a SET clause in it
W_inject == <<
    "a","'"," ","T","H","E","N"," ","3"," ","E","L","S","E"," ","1",
    " ","E","N","D"," ","A","S"," ","r","e","l","e","v","a","n","c",
    "e"," ","S","E","T"," ","n","o","d","e",".","a","d"," ","="," ",
    "1"," ","W","I","T","H"," ","n","o","d","e",","," ","C","A","S",
    "E"," ","W","H","E","N"," ","1","=","1"," ","T","H","E","N"," ",
    "1"," ","/","/","\n","W","H","E","N"," ","'","'"," ","="," ","'",
    "b" >>

W_rdp == <<"r","d","p">>

AccessQueries ==
    {W_hello, W_network, W_admin, W_kerberos, W_alice, W_inject,
     Join(<<W_attack, W_path>>, <<" ">>), Join(<<W_network, W_target>>, <<" ">>),
     Join(<<W_top, W_admin>>, <<" ">>),
     Join(<<W_attack, W_path, W_dc, N_ws1>>, <<" ">>),
     Join(<<W_attack, W_path, W_fqdn>>, <<" ">>),
     W_rdp, Join(<<W_rdp, W_dc>>, <<" ">>)}

InitAccess ==
    /\ query \in AccessQueries
    /\ chat_history \in Histories
    /\ use_mock \in BOOLEAN
    /\ pc = "start"
    /\ cypher_results = <<>>
    /\ PipelineIdle
    /\ ExtractionIdle
    /\ SessionsIdle
    /\ SingleRequest
    /\ store = [nodes |-> StoreNodePool, edges |-> <<StoreEdgePool[1]>>]
    /\ entities = <<>>
    /\ max_nodes = 15
    /\ hydrated = TRUE
    /\ subgraph = [returned |-> FALSE]

SpecAccess == InitAccess /\ [][Next]_vars

(***************************************************************************)
(* Two process_query calls on one pipeline object, their steps interleaved *)
(* in any order.  The variables of the call that runs are the ones above;   *)
(* those of the other call wait in `parked`.  retrieval_pipeline.py:18-245 *)
(***************************************************************************)
\* a general query, one with a principal, one with a trigger term
PairQueries == {W_hello, Join(<<W_network, W_alice>>, <<" ">>), W_admin}

\* the local variables of the call that runs
Frame ==
    [query |-> query, chat_history |-> chat_history, pc |-> pc, domain |-> domain,
     potential_users |-> potential_users, userIdx |-> userIdx,
     extracted_entities |-> extracted_entities, cypher_results |-> cypher_results,
     calls |-> calls, backend |-> backend, generator_calls |-> generator_calls,
     formatted_context |-> formatted_context, history_text |-> history_text,
     structured_answer |-> structured_answer, response |-> response]

\* the local variables of a call about to start on query q
NewFrame(q) ==
    [query |-> q, chat_history |-> <<>>, pc |-> "start", domain |-> "",
     potential_users |-> <<>>, userIdx |-> 0, extracted_entities |-> <<>>,
     cypher_results |-> <<>>, calls |-> <<>>,
     backend |-> [kind |-> "none", text |-> <<>>], generator_calls |-> 0,
     formatted_context |-> <<>>, history_text |-> <<>>,
     structured_answer |-> [answer |-> <<>>, entities |-> <<>>],
     response |-> [returned |-> FALSE]]

\* a pipeline that keeps the extracted principals on itself between the steps
kept_on_self_users == {"potential_users"}

\* What process_query keeps on the pipeline object rather than in local
\* variables: nothing.  __init__ sets neo4j_client, llm_handler,
\* embedding_model and ner_model (lines 26-47) and no method assigns to self.
kept_on_self == {}

\* what the call that takes over finds in variable `name`: its own value, or,
\* for what is kept on the object, whatever the other call left there
Resumed(name, mine, theirs) == IF name \in kept_on_self THEN theirs ELSE mine

\* the running call is suspended between two steps and the other one resumes
Switch ==
    /\ parked.pc \notin {"none", "done", "raised"}
    /\ parked' = Frame
    /\ query' = parked.query
    /\ chat_history' = parked.chat_history
    /\ pc' = parked.pc
    /\ domain' = parked.domain
    /\ potential_users' = Resumed("potential_users", parked.potential_users, potential_users)
    /\ userIdx' = parked.userIdx
    /\ extracted_entities' = parked.extracted_entities
    /\ cypher_results' = Resumed("cypher_results", parked.cypher_results, cypher_results)
    /\ calls' = parked.calls
    /\ backend' = parked.backend
    /\ generator_calls' = parked.generator_calls
    /\ formatted_context' = parked.formatted_context
    /\ history_text' = parked.history_text
    /\ structured_answer' = parked.structured_answer
    /\ response' = parked.response
    /\ UNCHANGED <<use_mock, extraction, visualization, sessions>>

\* the generator answers with one fixed text
GenerateInPair == GenerateFrom({[kind |-> "text", text |-> T_plain]}, "graph")

InitPair ==
    /\ query \in PairQueries
    /\ chat_history = <<>>
    /\ use_mock = TRUE
    /\ pc = "start"
    /\ cypher_results = <<>>
    /\ PipelineIdle
    /\ ExtractionIdle
    /\ SessionsIdle
    /\ VisualizationIdle
    /\ parked \in {NewFrame(q) : q \in PairQueries}

NextPair ==
    \/ ProcessQuery
    \/ FindRdpAccess
    \/ FindUserGroupMemberships
    \/ FindDomainAdmins
    \/ KeywordSearch
    \/ SemanticSearch
    \/ GenerateInPair
    \/ BuildResponse
    \/ Switch

SpecPair == InitPair /\ [][NextPair]_vars

(***************************************************************************)
(* Neo4jClient.keyword_search called on its own against a graph:           *)
(* neo4j_client.py:176-202                                                 *)
(***************************************************************************)
\* line 176: limit: int = 5
DefaultLimit == 5

Limits == {1, DefaultLimit}

N_admin == <<"a","d","m","i","n">>

N_admin_bob == <<"a","d","m","i","n"," ","b","o","b">>

\* nodes whose name holds the whole query, whose description does, and that
\* hold one term of it only
KeywordNodePool == <<
    [id |-> 1, labels |-> <<L_User>>, props |-> <<StrF("name", N_admin)>>],
    [id |-> 2, labels |-> <<L_User>>,
     props |-> <<StrF("name", N_bob), StrF("description", N_admin_bob)>>],
    [id |-> 3, labels |-> <<L_Computer>>, props |-> <<StrF("name", N_admin_bob)>>] >>

KeywordEdgePool == <<
    [start |-> 1, end |-> 2, type |-> L_MemberOf],
    [start |-> 2, end |-> 3, type |-> L_AdminTo],
    [start |-> 3, end |-> 1, type |-> L_AdminTo] >>

KeywordStores ==
    {[nodes |-> KeywordNodePool, edges |-> Pick(KeywordEdgePool, S, 1)] :
         S \in SUBSET DOMAIN KeywordEdgePool}

KeywordQueries == {N_admin, N_admin_bob, N_bob}

\* "node.<key> CONTAINS '<text>'": null, so not true, when the property is absent
prop_contains(node, key, text) ==
    /\ HasKey(node.props, key)
    /\ Get(node.props, key).kind = "str"
    /\ Contains(Get(node.props, key).val, text)

\* lines 179-180 and 185: the WHERE clause, one CONTAINS pair per term
where_matches(node, q) ==
    \E i \in DOMAIN search_terms(q) :
        \/ prop_contains(node, "name", search_terms(q)[i])
        \/ prop_contains(node, "description", search_terms(q)[i])

\* lines 187-190: the CASE expression
relevance(node, q) ==
    IF prop_contains(node, "name", q) THEN 3
    ELSE IF prop_contains(node, "description", q) THEN 2
    ELSE 1

\* line 191, MATCH (node)-[r]-(related): one match per matched node and edge
\* at that node, the other end being the related node
pattern_matches(g, q) ==
    {[node |-> g.nodes[t[1]], related |-> g.nodes[t[2]], edge |-> t[3]] :
        t \in {u \in (DOMAIN g.nodes) \X (DOMAIN g.nodes) \X (DOMAIN g.edges) :
                  /\ where_matches(g.nodes[u[1]], q)
                  /\ u[1] # u[2]
                  /\ {g.nodes[u[1]].id, g.nodes[u[2]].id}
                        = {g.edges[u[3]].start, g.edges[u[3]].end}}}

PropField(node, key, as) ==
    IF HasKey(node.props, key) THEN StrF(as, Get(node.props, key).val) ELSE NoneF(as)

\* lines 192-199: the RETURN clause
keyword_row(match, q) ==
    <<PropField(match.node, "name", "name"),
      PropField(match.node, "description", "description"),
      PropField(match.node, "type", "type"),
      Field("labels", "list", match.node.labels),
      Field("score", "int", relevance(match.node, q)),
      PropField(match.related, "name", "related_name"),
      PropField(match.related, "description", "related_description")>>

\* line 200, LIMIT $limit, on a text with no ORDER BY: the store hands back the
\* rows in an order of its choosing and stops at the limit
limited_rows(matches, q, limit) ==
    LET n == Cardinality(matches)
        k == IF n < limit THEN n ELSE limit
    IN  {[i \in 1..k |-> keyword_row(pick[i], q)] :
            pick \in {f \in [1..k -> matches] :
                         \A a, b \in 1..k : a # b => f[a] # f[b]}}

\* What the store does with the query: it fails (no connection, or the text
\* with no term, which is no Cypher), or returns rows
KeywordGraphAnswers(g, q, limit) ==
    {StoreFailure}
    \cup (IF search_terms(q) = <<>> THEN {}
          ELSE {[ok |-> TRUE, rows |-> r] : r \in limited_rows(pattern_matches(g, q), q, limit)})

InitKeyword ==
    /\ query \in KeywordQueries
    /\ chat_history = <<>>
    /\ use_mock = TRUE
    /\ pc = "search"
    /\ cypher_results = <<>>
    /\ PipelineIdle
    /\ ExtractionIdle
    /\ SessionsIdle
    /\ SingleRequest
    /\ store \in KeywordStores
    /\ entities = <<>>
    /\ max_nodes = 15
    /\ hydrated = TRUE
    /\ subgraph = [returned |-> FALSE]

\* lines 176-202, with the limit the caller passes
KeywordSearchOnGraph ==
    /\ pc = "search"
    /\ \E limit \in Limits :
       \E answer \in KeywordGraphAnswers(store, query, limit) :
          /\ calls' = Append(calls, [op |-> "keyword_search", arg |-> query,
                                     text |-> keyword_search_query(query),
                                     status |-> Status(answer),
                                     n |-> Len(keyword_search(answer)),
                                     limit |-> limit])
          /\ cypher_results' = keyword_search(answer)
    /\ pc' = "searched"
    /\ UNCHANGED <<request, domain, potential_users, userIdx, extracted_entities,
                   generation, response, extraction, visualization, elsewhere>>

NextKeyword == KeywordSearchOnGraph

SpecKeyword == InitKeyword /\ [][NextKeyword]_vars

(***************************************************************************)
(* Properties of process_query                                             *)
(***************************************************************************)
\* cybersecurity_kg_loader.py:523-584, the names of the canned queries
common_query_names == <<
    <<"T","o","p"," ","A","t","t","a","c","k"," ","T","y","p","e","s"," ","b",
        "y"," ","F","i","n","a","n","c","i","a","l"," ","L","o","s","s">>,
    <<"M","o","s","t"," ","T","a","r","g","e","t","e","d"," ","I","n","d","u",
        "s","t","r","i","e","s">>,
    <<"M","o","s","t"," ","C","o","m","m","o","n"," ","V","u","l","n","e","r",
        "a","b","i","l","i","t","i","e","s"," ","b","y"," ","C","o","u","n",
        "t","r","y">>,
    <<"M","o","s","t"," ","E","f","f","e","c","t","i","v","e"," ","D","e","f",
        "e","n","s","e"," ","M","e","c","h","a","n","i","s","m","s">>,
    <<"A","t","t","a","c","k"," ","T","r","e","n","d","s"," ","O","v","e","r",
        " ","T","i","m","e">>,
    <<"C","o","u","n","t","r","i","e","s"," ","M","o","s","t"," ","T","a","r",
        "g","e","t","e","d"," ","b","y"," ","N","a","t","i","o","n","-","s",
        "t","a","t","e","s">> >>


TargetedOps == {"find_rdp_access", "find_user_group_memberships", "find_attack_paths",
                "find_high_value_targets", "find_domain_admins",
                "find_kerberoastable_accounts"}

\* every retrieval call of the request has returned
RetrievalDone == pc \in {"generate", "graph", "done", "raised"}

\* process_query has returned or raised
Finished == pc \in {"done", "raised"}

Invocations(op) == {i \in DOMAIN calls : calls[i].op = op}

RECURSIVE RowsReturned(_)
RowsReturned(log) == IF log = <<>> THEN 0 ELSE log[1].n + RowsReturned(Tail(log))

\* The aggregate-intent phrases of the Analytical class (spec 4.2)
AnalyticalPhrases == <<
    <<"t","o","p"," ">>,
    <<"m","o","s","t"," ","c","o","m","m","o","n">>,
    <<"s","t","a","t","i","s","t","i","c","s">>,
    <<"h","i","g","h","e","s","t"," ","r","i","s","k">> >>

\* What the two apology texts of llm_handler.py have in common
ApologyPrefix == <<"I","'","m"," ","s","o","r","r","y",","," ","I"," ","e",
        "n","c","o","u","n","t","e","r","e","d"," ","a","n"," ","e","r","r",
        "o","r"," ","w","h","i","l","e"," ","g","e","n","e","r","a","t","i",
        "n","g"," ","y","o","u","r"," ","a","n","s","w","e","r">>

AnalyticalQuery(q) ==
    \E i \in DOMAIN AnalyticalPhrases : Contains(Lower(q), AnalyticalPhrases[i])

\* the query shares a keyword with the name of a canned query
MatchesCannedQuery(q) ==
    \E i \in DOMAIN common_query_names :
        \E w \in Range(SplitWS(Lower(common_query_names[i]))) \ stopwords :
            Contains(Lower(q), w)

\* the principal heuristic of spec 4.1, on a token stripped of punctuation
PrincipalLike(cw) == Contains(cw, <<"@">>) \/ EndsWith(Lower(cw), DotLocal)

CleanTokens(q) == [i \in DOMAIN SplitWS(q) |-> Strip(SplitWS(q)[i], PunctChars)]

PrincipalTokens(q) == SelectSeq(CleanTokens(q), PrincipalLike)

TargetedTrigger(q) ==
    \/ PrincipalTokens(q) # <<>>
    \/ attack_path_trigger(q)
    \/ high_value_trigger(q)
    \/ admin_trigger(q)
    \/ kerberos_trigger(q)

IsRdpCall(c) == c.op = "find_rdp_access"

RdpArguments ==
    LET rdp == SelectSeq(calls, IsRdpCall) IN [i \in DOMAIN rdp |-> rdp[i].arg]

\* What the properties below need to know of each query, worked out once
QueryFacts ==
    [q \in Queries |->
        [analytical |-> AnalyticalQuery(q),
         canned |-> MatchesCannedQuery(q),
         principals |-> PrincipalTokens(q),
         trigger |-> TargetedTrigger(q)]]

Facts == QueryFacts[query]

\* C1 (as claimed): process_query never raises, and the answer, sources and graph
\* of the response it returns are all non-null.
C1_ResponseWellFormed ==
    /\ pc # "raised"
    /\ pc = "done" => /\ response.returned
                      /\ response.graph_data # NoneValue

\* C2 (as claimed): a query with no Analytical phrase and no Targeted trigger term
\* invokes the generic keyword search exactly once and no Targeted operation;
\* stated here for the queries _process_cybersecurity_query plans, which is
\* where the keyword search is.
C2_GenericOnly ==
    (RetrievalDone /\ domain = "cybersecurity" /\ ~Facts.analytical /\ ~Facts.trigger) =>
        /\ Cardinality(Invocations("keyword_search")) = 1
        /\ \A i \in DOMAIN calls : calls[i].op \notin TargetedOps

\* C2 (amended): for such a query that passes the cybersecurity keyword gate, the
\* two per-principal lookups run once each, bound to the placeholder principal, no
\* other Targeted operation runs, and the generic keyword search runs exactly once
\* if those lookups returned no rows and not at all otherwise; a query that does
\* not pass the gate invokes semantic_search once and nothing else.
C2_PlaceholderThenFallback ==
    (RetrievalDone /\ ~Facts.analytical /\ ~Facts.trigger) =>
        IF domain = "cybersecurity"
        THEN /\ Len(calls) >= 2
             /\ calls[1].op = "find_rdp_access" /\ calls[1].arg = DefaultUser
             /\ calls[2].op = "find_user_group_memberships" /\ calls[2].arg = DefaultUser
             /\ IF calls[1].n + calls[2].n = 0
                THEN Len(calls) = 3 /\ calls[3].op = "keyword_search"
                ELSE Len(calls) = 2
        ELSE Len(calls) = 1 /\ calls[1].op = "semantic_search"

\* a query without trigger whose placeholder lookups found nothing and fell back
C2_Witness ==
    /\ Finished /\ ~Facts.analytical /\ ~Facts.trigger
    /\ Len(calls) = 3 /\ calls[3].op = "keyword_search" /\ calls[3].n > 0

C5_FailureDoesNotAbort ==
    \A i \in DOMAIN calls :
        calls[i].status = "failed" => calls[i].n = 0 /\ pc # "raised"

\* C6: a query with an Analytical phrase that matches a canned query
\* executes that canned query exactly once and nothing else, and the sources are
\* exactly one synthetic record.
C6_AnalyticalPlan ==
    (RetrievalDone /\ Facts.analytical /\ Facts.canned) =>
        /\ Cardinality(Invocations("analytical_query")) = 1
        /\ \A i \in DOMAIN calls : calls[i].op = "analytical_query"
        /\ Len(cypher_results) = 1

\* C7 (as claimed): for every query with a principal-like token the RDP-access
\* operation is invoked, bound to exactly the principals of the query.
C7_RdpBoundToPrincipal ==
    (Finished /\ Facts.principals # <<>>) =>
        RdpArguments = Facts.principals

\* C7 (amended): for every query that passes the cybersecurity keyword gate and
\* holds a token that, stripped of punctuation, contains '@' or ends in ".local",
\* the extractor yields the stripped tokens and find_rdp_access is invoked once
\* per such token, bound to it, and never to the placeholder.
C7_CyberRdpBoundToPrincipal ==
    (domain = "cybersecurity" /\ pc \notin {"start", "rdp", "groups"}
        /\ Facts.principals # <<>>) =>
        /\ potential_users = Facts.principals
        /\ RdpArguments = Facts.principals
        /\ \A i \in DOMAIN calls : calls[i].arg # DefaultUser

\* a query whose principal carried punctuation, after its RDP lookup
C7_Witness ==
    /\ Finished /\ domain = "cybersecurity"
    /\ Facts.principals = <<Strip(W_alice, PunctChars)>>
    /\ W_alice # Strip(W_alice, PunctChars)
    /\ RdpArguments = <<Strip(W_alice, PunctChars)>>

(***************************************************************************)
(* Properties of the entity extractors                                     *)
(***************************************************************************)
\* the host heuristic of lines 323 and 327, read off a cleaned token
HostLike(cw) ==
    \/ Upper(cw) = cw /\ Len(cw) <= 4 /\ IsAlnum(cw)
    \/ /\ CountChar(cw, ".") >= 2
       /\ \E i \in DOMAIN FqdnDomains : Contains(Lower(cw), FqdnDomains[i])

HostTokens(q) == SelectSeq(CleanTokens(q), HostLike)

ExtractFacts ==
    [t \in ExtractTexts |->
        [principals |-> PrincipalTokens(t), hosts |-> HostTokens(t)]]

NothingToFind ==
    ExtractFacts[query].principals = <<>> /\ ExtractFacts[query].hosts = <<>>

Generated == pc = "generated"

\* C9: when the backend's response text lacks the entities delimiter, the parsed
\* entities list is empty and the answer is the response text, character for
\* character.
C9_NoDelimiterVerbatim ==
    (Generated /\ backend.kind = "text" /\ ~Contains(backend.text, EntitiesDelimiter)) =>
        /\ structured_answer.entities = <<>>
        /\ structured_answer.answer = backend.text

\* a response with white space around it and the delimiter's word without its colon
C9_Witness ==
    /\ Generated /\ backend.kind = "text"
    /\ ~Contains(backend.text, EntitiesDelimiter)
    /\ Contains(backend.text, <<"E","N","T","I","T","I","E","S">>)
    /\ Strip(backend.text, Whitespace) # backend.text
    /\ structured_answer.answer = backend.text

\* C10: formatting an empty list of graph records gives the sentinel text and
\* nothing else.
C10_EmptyContextSentinel ==
    (Generated /\ cypher_results = <<>>) =>
        /\ formatted_context = NoInfoSentinel
        /\ formatted_context # <<>>

\* an empty context, formatted for a backend that answered
C10_Witness ==
    /\ Generated /\ cypher_results = <<>> /\ backend.kind = "text"
    /\ formatted_context = NoInfoSentinel


(***************************************************************************)
(* Properties of get_visualization_subgraph                                *)
(***************************************************************************)
SubgraphNodeIds == {subgraph.nodes[i].id : i \in DOMAIN subgraph.nodes}

\* C4: in every subgraph returned, each edge's source and each edge's target is
\* the id of a node of that subgraph.
C4_EdgesWithinNodes ==
    subgraph.returned =>
        \A i \in DOMAIN subgraph.relationships :
            /\ subgraph.relationships[i].source \in SubgraphNodeIds
            /\ subgraph.relationships[i].target \in SubgraphNodeIds

\* a store with an edge inside the matched nodes and an edge leaving them
C4_Witness ==
    /\ subgraph.returned
    /\ Len(subgraph.nodes) >= 2
    /\ Len(subgraph.relationships) >= 1
    /\ Len(store.edges) > Len(subgraph.relationships)
    /\ \E i \in DOMAIN subgraph.relationships :
          subgraph.relationships[i].source # subgraph.relationships[i].target

\* C27: whatever the entity list and the graph, a subgraph that is returned
\* holds at most maxNodes nodes.
C27_AtMostMaxNodes ==
    subgraph.returned => Len(subgraph.nodes) <= max_nodes


(***************************************************************************)
(* Properties of the Graph Access Layer as process_query uses it           *)
(***************************************************************************)
\* What each operation sends for one fixed query, to compare against
ReferenceTexts ==
    [op \in TargetedOps \cup {"keyword_search", "semantic_search"} |->
        query_text(op, W_hello)]

\* C11: the query text an operation sends to the store does not depend on the
\* user's query: it is the text the same operation sends for any other query,
\* and only the bound parameters differ.
C11_TextIndependentOfQuery ==
    \A i \in DOMAIN calls :
        calls[i].status # "noquery" => calls[i].text = ReferenceTexts[calls[i].op]


\* C12: process_query leaves the graph store as it found it, whatever the
\* query text: no step of a request changes the graph the store holds.
C12_StoreUnchanged == [][store' = store]_vars


\* C13: a client call acquires one session, runs one operation in it, and has
\* released it before it returns, by the return or by the handler; with no
\* call under way no session is open.
C13_SessionScopedToCall ==
    /\ exec.acquired <= 1
    /\ exec.runs <= exec.acquired
    /\ open_sessions = (IF exec.phase \in {"with", "leaving", "raising"} THEN 1 ELSE 0)
    /\ exec.phase \in {"idle", "except"} => open_sessions = 0

\* a call whose run raised inside the with block, now in its handler, after a
\* call that returned rows
C13_Witness ==
    /\ exec.phase = "except"
    /\ exec.acquired = 1
    /\ exec.runs = 1
    /\ open_sessions = 0
    /\ Len(exec.log) = 1
    /\ exec.log[1].ok


(***************************************************************************)
(* Properties of the subgraph step of process_query                        *)
(***************************************************************************)
SubgraphOps == {"get_subgraph_for_entities", "get_visualization_subgraph"}

\* No candidate name from any source: the cybersecurity path always has its
\* principals and hosts, the general path has the generator's entities, the
\* names of the context records and the recognised entities.
PoolEmpty ==
    /\ domain = "general"
    /\ structured_answer.entities = <<>>
    /\ extracted_entities = <<>>
    /\ \A i \in DOMAIN cypher_results : ~Truthy(Get(cypher_results[i], "name"))

NoGraphQuery == \A i \in DOMAIN calls : calls[i].op \notin SubgraphOps

NoDuplicates(seq) == \A i, j \in DOMAIN seq : seq[i] = seq[j] => i = j

PerPrincipalOps == {"find_rdp_access", "find_user_group_memberships"}

\* the entries of the log for operation op, in order
CallsOf(op) == SelectSeq(calls, LAMBDA c : c.op = op)

\* C16: nothing is retried.  An operation of a trigger is invoked at most
\* once, the two per-principal operations once per extracted principal, in the
\* principals' order, and the generator at most once, whether or not a call
\* failed; a failed call contributes no row.
C16_NoRetry ==
    /\ \A op \in (TargetedOps \ PerPrincipalOps) \cup {"keyword_search", "semantic_search"} :
          Len(CallsOf(op)) <= 1
    /\ \A op \in PerPrincipalOps :
          /\ Len(CallsOf(op)) <= Len(potential_users)
          /\ \A k \in DOMAIN CallsOf(op) : CallsOf(op)[k].arg = potential_users[k]
    /\ generator_calls <= 1
    /\ \A i \in DOMAIN calls : calls[i].status = "failed" => calls[i].n = 0

\* a request that went on after a failed trigger lookup and a failed
\* generator call
C16_Witness ==
    /\ Finished
    /\ generator_calls = 1
    /\ backend.kind = "error"
    /\ \E i \in DOMAIN calls :
          /\ calls[i].op = "find_attack_paths"
          /\ calls[i].status = "failed"
          /\ i < Len(calls)


\* the lists of rows an operation can return
OpRowsets(op) ==
    CASE op = "find_rdp_access" -> RdpRows
      [] op = "find_user_group_memberships" -> GroupRows
      [] op = "find_attack_paths" -> PathRows
      [] op = "find_high_value_targets" -> TargetRows
      [] op = "find_domain_admins" -> AdminRows
      [] op = "find_kerberoastable_accounts" -> KerbRows
      [] op = "semantic_search" ->
           {semantic_search_results(a) : a \in StoreAnswers(SemanticRawRows)}
      [] OTHER -> KeywordRows

\* the rows an operation's query can return
OpRows(op) == UNION {Range(rows) : rows \in OpRowsets(op)}

\* the place of call number i in the fixed order: the principals one after the
\* other, RDP before groups for each, then attack path, high-value targets,
\* admins, kerberoastable accounts
Rank(i) ==
    LET op == calls[i].op
        nth == Cardinality({j \in 1..i : calls[j].op = op})
    IN CASE op = "find_rdp_access" -> 2 * nth - 1
         [] op = "find_user_group_memberships" -> 2 * nth
         [] op = "find_attack_paths" -> 2 * Len(potential_users) + 1
         [] op = "find_high_value_targets" -> 2 * Len(potential_users) + 2
         [] op = "find_domain_admins" -> 2 * Len(potential_users) + 3
         [] op = "find_kerberoastable_accounts" -> 2 * Len(potential_users) + 4
         [] OTHER -> 2 * Len(potential_users) + 5

\* the rows call number i contributed, read off the gathered rows
Contribution(i) ==
    SubSeq(cypher_results, RowsReturned(SubSeq(calls, 1, i - 1)) + 1,
           RowsReturned(SubSeq(calls, 1, i)))

\* C18: the gathered rows are the rows of every lookup invoked, concatenated
\* in the fixed order of the lookups: principals (RDP, then groups, for each),
\* attack path, high-value targets, admins, kerberoastable accounts; no row is
\* replaced or dropped.  (Once the generic search has run the lookups had no
\* row to keep: that case is C19's.)
C18_SourcesConcatenated ==
    (domain = "cybersecurity" /\ Invocations("keyword_search") = {}) =>
        /\ Len(cypher_results) = RowsReturned(calls)
        /\ \A i \in DOMAIN calls :
              \A k \in DOMAIN Contribution(i) : Contribution(i)[k] \in OpRows(calls[i].op)
        /\ \A i \in DOMAIN calls : i > 1 => Rank(i - 1) < Rank(i)

\* two triggers and a principal lookup that all returned rows
C18_Witness ==
    /\ RetrievalDone
    /\ \E i, j, k \in DOMAIN calls :
          /\ i < j /\ j < k
          /\ calls[i].op \in PerPrincipalOps /\ calls[i].n > 0
          /\ calls[j].op \notin PerPrincipalOps /\ calls[j].n > 0
          /\ calls[k].op \notin PerPrincipalOps /\ calls[k].n > 0
    /\ Len(cypher_results) >= 3

\* C19: on the cybersecurity path the generic keyword search is invoked
\* exactly when the lookups returned no row in total, and then the gathered
\* rows are its result alone: lookup rows and generic rows are never mixed.
C19_FallbackIffNoRows ==
    (RetrievalDone /\ domain = "cybersecurity") =>
        LET lookups == SelectSeq(calls, LAMBDA c : c.op \in TargetedOps)
            generic == CallsOf("keyword_search")
        IN /\ (generic # <<>>) <=> (RowsReturned(lookups) = 0)
           /\ generic # <<>> =>
                 /\ Len(cypher_results) = generic[1].n
                 /\ \A k \in DOMAIN cypher_results : cypher_results[k] \in OpRows("keyword_search")
           /\ generic = <<>> =>
                 \A k \in DOMAIN cypher_results : cypher_results[k] \notin OpRows("keyword_search")

\* a trigger fired, every lookup came back empty, and the generic search found rows
C19_Witness ==
    /\ RetrievalDone
    /\ domain = "cybersecurity"
    /\ Len(calls) >= 4
    /\ calls[Len(calls)].op = "keyword_search"
    /\ calls[Len(calls)].n > 0
    /\ cypher_results # <<>>

\* C20: a query with an Analytical phrase that matches a canned query and
\* with a Targeted trigger term is handled by the Analytical plan only: no
\* Targeted operation is invoked for it.
C20_AnalyticalBeforeTargeted ==
    (RetrievalDone /\ Facts.analytical /\ Facts.canned /\ Facts.trigger) =>
        \A i \in DOMAIN calls : calls[i].op \notin TargetedOps


(***************************************************************************)
(* Properties of two requests on one pipeline                              *)
(***************************************************************************)
CallStages == {"rdp", "groups", "attack", "target", "admin", "kerb", "keyword", "semantic"}

PairFacts ==
    [q \in PairQueries |->
        [cyber |-> is_cybersecurity_query(q), users |-> extract_potential_users(q)]]

OpAt(stage) ==
    CASE stage = "rdp" -> "find_rdp_access"
      [] stage = "groups" -> "find_user_group_memberships"
      [] stage = "attack" -> "find_attack_paths"
      [] stage = "target" -> "find_high_value_targets"
      [] stage = "admin" -> "find_domain_admins"
      [] stage = "kerb" -> "find_kerberoastable_accounts"
      [] stage = "keyword" -> "keyword_search"
      [] OTHER -> "semantic_search"

ArgAt(q, stage, idx) ==
    CASE stage \in {"rdp", "groups"} -> PairFacts[q].users[idx]
      [] stage = "attack" -> attack_target(q)
      [] stage \in {"keyword", "semantic"} -> q
      [] OTHER -> <<>>

StageNo(stage) == CHOOSE i \in DOMAIN StageOrder : StageOrder[i] = stage

\* the stage a request for q starts at when it runs alone
FirstStage(q) ==
    IF ~PairFacts[q].cyber THEN "semantic"
    ELSE IF PairFacts[q].users # <<>> THEN "rdp" ELSE AfterStage(0, q, <<>>)

\* A request for q running alone from `stage` on, whose calls return ns[1],
\* ns[2], ... rows: the operations it invokes with their arguments, the rows
\* it has gathered, and the stage it has come to.
RECURSIVE Alone(_, _, _, _, _)
Alone(q, stage, idx, results, ns) ==
    IF ns = <<>> \/ stage \notin CallStages
    THEN [calls |-> <<>>, results |-> results, pc |-> stage]
    ELSE LET rows == IF ns[1] = 0 THEN <<>>
                     ELSE CHOOSE r \in OpRowsets(OpAt(stage)) : Len(r) = ns[1]
             gathered == IF stage \in {"keyword", "semantic"} THEN rows
                         ELSE IF rows # <<>> THEN results \o rows ELSE results
             next == CASE stage = "rdp" -> "groups"
                       [] stage = "groups" ->
                            IF idx < Len(PairFacts[q].users) THEN "rdp"
                            ELSE AfterStage(0, q, gathered)
                       [] stage \in {"keyword", "semantic"} -> "generate"
                       [] OTHER -> AfterStage(StageNo(stage), q, gathered)
             rest == Alone(q, next, IF stage = "groups" THEN idx + 1 ELSE idx,
                           gathered, Tail(ns))
         IN [calls |-> <<[op |-> OpAt(stage), arg |-> ArgAt(q, stage, idx)]>> \o rest.calls,
             results |-> rest.results,
             pc |-> rest.pc]

\* the request with local variables f has done what it does when it runs
\* alone and its calls return the same numbers of rows: the same operations
\* with the same arguments, the same rows gathered and returned as sources,
\* the same call to come
AsWhenAlone(f) ==
    \/ f.pc = "start"
    \/ LET alone == Alone(f.query, FirstStage(f.query), 1, <<>>,
                          [i \in DOMAIN f.calls |-> f.calls[i].n])
       IN /\ [i \in DOMAIN f.calls |-> [op |-> f.calls[i].op, arg |-> f.calls[i].arg]]
                = alone.calls
          /\ f.cypher_results = alone.results
          /\ alone.pc = (IF f.pc \in CallStages THEN f.pc ELSE "generate")
          /\ f.response.returned => f.response.sources = alone.results

\* C17: however the steps of two process_query calls on the same pipeline are
\* interleaved, each call invokes the operations, with the arguments, and
\* gathers and returns the sources that it does when it runs alone.
C17_RequestsIndependent == AsWhenAlone(Frame) /\ AsWhenAlone(parked)

\* both calls under way at once, each with lookups behind it and a lookup to
\* come, for different principals
C17_Witness ==
    /\ pc \in {"rdp", "groups"}
    /\ parked.pc \in {"admin", "keyword"}
    /\ calls # <<>>
    /\ parked.calls # <<>>
    /\ potential_users # parked.potential_users


(***************************************************************************)
(* Order of the stages of one request                                      *)
(***************************************************************************)
\* C21: within one request the stages run one after another: while a Graph
\* Access call of the retrieval is still due the generator has not been called,
\* the generator is called once and only when the retrieval is over, and a
\* subgraph query is only ever in the log of a request whose generator has
\* returned.
C21_StagesInOrder ==
    /\ pc \in CallStages \cup {"start", "generate"} => generator_calls = 0
    /\ generator_calls > 0 =>
          /\ generator_calls = 1
          /\ pc \in {"graph", "subgraph", "done", "raised"}
          /\ backend.kind # "none"
    /\ \A i \in DOMAIN calls :
          calls[i].op \in SubgraphOps => generator_calls > 0

\* a request that made several retrieval calls, then called the generator and
\* went on to the graph stage
C21_Witness ==
    /\ pc = "raised"
    /\ Len(calls) >= 2
    /\ generator_calls = 1


(***************************************************************************)
(* Properties of the entities section of a response                        *)
(***************************************************************************)
\* the text before and after the first occurrence of the delimiter
FirstDelimiter(text) ==
    CHOOSE i \in 1..Len(text) :
        /\ OccursAt(EntitiesDelimiter, text, i)
        /\ \A j \in 1..(i - 1) : ~OccursAt(EntitiesDelimiter, text, j)

BeforeDelimiter(text) == Slice(text, 1, FirstDelimiter(text) - 1)

AfterDelimiter(text) ==
    Slice(text, FirstDelimiter(text) + Len(EntitiesDelimiter), Len(text))

\* a line without its one leading bullet marker
WithoutBullet(line) ==
    IF StartsWith(line, <<"-", " ">>) THEN Slice(line, 3, Len(line))
    ELSE IF StartsWith(line, <<"-">>) THEN Tail(line)
    ELSE line

RECURSIVE BulletedEntities(_)
BulletedEntities(lines) ==
    IF lines = <<>> THEN <<>>
    ELSE (IF Strip(lines[1], Whitespace) # <<>>
          THEN <<WithoutBullet(Strip(lines[1], Whitespace))>>
          ELSE <<>>)
         \o BulletedEntities(Tail(lines))

\* C22: for every response that contains the entities delimiter, the answer is
\* the text before the delimiter (white space at its ends aside) and the
\* entities are the non-empty lines of everything after the first delimiter,
\* each without its one leading bullet marker.
C22_EntitiesFromAllAfterDelimiter ==
    (Generated /\ backend.kind = "text" /\ Contains(backend.text, EntitiesDelimiter)) =>
        /\ structured_answer.answer = Strip(BeforeDelimiter(backend.text), Whitespace)
        /\ structured_answer.entities =
               BulletedEntities(SplitOn(AfterDelimiter(backend.text), <<"\n">>))


(***************************************************************************)
(* Properties of _format_kg_context                                        *)
(***************************************************************************)
\* a list of RDP-access records: each is {computer: name}
IsRdpList(records) ==
    \A i \in DOMAIN records :
        /\ Len(records[i]) = 1
        /\ records[i][1].key = "computer"
        /\ records[i][1].kind = "str"

ComputerNames(records) == {records[i][1].val : i \in DOMAIN records}

\* the title lines of a formatted context, "Entity <n>: <title>", and their titles
TitleLines(text) ==
    SelectSeq(SplitOn(text, <<"\n">>), LAMBDA line : StartsWith(line, L_Entity))

TitleOf(line) ==
    LET at == CHOOSE i \in 1..Len(line) :
                  /\ OccursAt(L_Colon, line, i)
                  /\ \A j \in 1..(i - 1) : ~OccursAt(L_Colon, line, j)
    IN  Slice(line, at + Len(L_Colon), Len(line))

\* C23: for every list of RDP-access records {computer: name}, the formatted
\* context has exactly one section per distinct computer name, titled by that
\* name, and is the sentinel when the list is empty.
C23_SectionPerComputer ==
    (Generated /\ IsRdpList(cypher_results)) =>
        IF cypher_results = <<>> THEN formatted_context = NoInfoSentinel
        ELSE LET titles == TitleLines(formatted_context) IN
             /\ Len(titles) = Cardinality(ComputerNames(cypher_results))
             /\ {TitleOf(titles[i]) : i \in DOMAIN titles} = ComputerNames(cypher_results)


\* the name a record is titled by
RecordTitle(record) ==
    IF \E k \in DOMAIN record : record[k].key = "name"
    THEN LET f == record[CHOOSE k \in DOMAIN record : record[k].key = "name"]
         IN  IF f.kind = "none" THEN L_None ELSE f.val
    ELSE L_Unknown

\* C24: for every non-empty record list the sections of the formatted context
\* are in the order of the records: there are as many title lines as records,
\* and the i-th title line carries the number i and the name of the i-th
\* record.
C24_SectionsInRecordOrder ==
    (Generated /\ cypher_results # <<>>) =>
        LET titles == TitleLines(formatted_context) IN
        /\ Len(titles) = Len(cypher_results)
        /\ \A i \in DOMAIN titles :
              titles[i] = L_Entity \o DecimalText(i) \o L_Colon
                          \o RecordTitle(cypher_results[i])

\* two records with different names, both orders of which are formatted
C24_Witness ==
    /\ Generated
    /\ Len(cypher_results) = 2
    /\ RecordTitle(cypher_results[1]) = N_bob
    /\ RecordTitle(cypher_results[2]) = N_ws1
    /\ Len(TitleLines(formatted_context)) = 2


(***************************************************************************)
(* Properties of the attack-path stage and of keyword_search's terms        *)
(***************************************************************************)
\* what the properties below read off a query of AccessQueries
AccessFacts ==
    [q \in AccessQueries |->
        [attack_path |-> Contains(Lower(q), KwAttack) /\ Contains(Lower(q), KwPath),
         hosts |-> HostTokens(q),
         long_terms |-> SelectSeq(SplitWS(q), LAMBDA term : Len(term) > 3)]]

HostCandidate(cw) ==
    \/ Upper(cw) = cw /\ Len(cw) <= 4 /\ IsAlnum(cw)
    \/ /\ CountChar(cw, ".") >= 2
       /\ \E i \in DOMAIN FqdnDomains : EndsWith(Lower(cw), FqdnDomains[i])

CandidateFacts ==
    [t \in ExtractTexts |-> SelectSeq(CleanTokens(t), HostCandidate)]

\* C26: the tokens an extraction reports are exactly the host candidates of the
\* text, each occurrence once and in the order of the text (a token with two
\* dots and a suffix in its middle is none); only a text without any candidate
\* yields the placeholder.
C26_ReportedIffCandidate ==
    \A i \in DOMAIN computer_runs :
        computer_runs[i] = IF CandidateFacts[query] # <<>>
                           THEN CandidateFacts[query]
                           ELSE <<DefaultComputer>>


(***************************************************************************)
(* Properties of keyword_search                                            *)
(***************************************************************************)
Searched == pc = "searched"

Score(row) == Get(row, "score").val

\* C28: the search returns at most its result cap of records, in descending
\* order of relevance score, and a record of a node whose name contains the
\* whole query has the highest score.
C28_CappedAndOrdered ==
    Searched =>
        /\ Len(cypher_results) <= calls[1].limit
        /\ \A i, j \in DOMAIN cypher_results :
              i < j => Score(cypher_results[i]) >= Score(cypher_results[j])
        /\ \A i, j \in DOMAIN cypher_results :
              (/\ Get(cypher_results[i], "name").kind = "str"
               /\ Contains(Get(cypher_results[i], "name").val, query))
              => Score(cypher_results[i]) >= Score(cypher_results[j])


(***************************************************************************)
(* Properties of the choice between the two retrieval paths                *)
(***************************************************************************)
\* the queries whose lowercased text holds a lowercased cybersecurity keyword
GateFacts ==
    [q \in Queries |->
        \E k \in {Lower(w) : w \in Range(cybersecurity_keywords)} :
            \E i \in 1..Len(q) : OccursAt(k, Lower(q), i)]

\* C29: a request takes the cybersecurity path if and only if its lowercased
\* query contains one of the cybersecurity keywords; otherwise it takes the
\* semantic-search path, which invokes semantic_search exactly once and neither
\* keyword_search nor a Targeted operation; a request on the cybersecurity path
\* never invokes semantic_search.
C29_GateChoosesOnePath ==
    RetrievalDone =>
        /\ domain \in {"cybersecurity", "general"}
        /\ domain = "cybersecurity" <=> GateFacts[query]
        /\ domain = "general" =>
              /\ Len(calls) = 1
              /\ calls[1].op = "semantic_search"
        /\ domain = "cybersecurity" =>
              /\ Invocations("semantic_search") = {}
              /\ \A i \in DOMAIN calls :
                    calls[i].op \in TargetedOps \cup {"keyword_search"}

\* a query of two words, neither a keyword, answered over the semantic path
C29_Witness ==
    /\ Finished
    /\ ~GateFacts[query]
    /\ Len(SplitWS(query)) = 2
    /\ domain = "general"
    /\ Len(calls) = 1 /\ calls[1].op = "semantic_search" /\ calls[1].status = "ok"


\* C30: keyword_search called with a query that has no white-space separated
\* term longer than 3 characters hands the store a text whose WHERE is followed
\* at once by WITH; the store's failure stays inside execute_query, the search
\* returns an empty list, and the request goes on to the generator.
C30_NoTermEmptyResult ==
    \A i \in DOMAIN calls :
        (calls[i].op = "keyword_search" /\ AccessFacts[query].long_terms = <<>>) =>
            /\ calls[i].text[1] = "MATCH (node) WHERE "
            /\ calls[i].text[2] = " WITH node, CASE WHEN node.name CONTAINS '"
            /\ calls[i].status = "failed"
            /\ calls[i].n = 0
            /\ i = Len(calls) => cypher_results = <<>>
            /\ pc \in {"generate", "graph", "done", "raised"}

\* a two-word query with no long term whose fallback search failed and whose
\* request went on to the generator and from there to the graph stage
C30_Witness ==
    /\ AccessFacts[query].long_terms = <<>>
    /\ Len(SplitWS(query)) = 2
    /\ \E i \in DOMAIN calls :
          calls[i].op = "keyword_search" /\ calls[i].status = "failed"
    /\ generator_calls = 1
    /\ pc = "graph"

Spec == Init /\ [][Next]_vars
====
